---- MODULE Spec2Model ----
(***************************************************************************)
(* Model of the concurrent download engine of the YouTube downloader:     *)
(*   - AsyncYoutubeDownloader (yt_dlp_async.py) and                        *)
(*     OptimizedYoutubeDownloader (yt_dlp_enhanced.py): the permit pool,   *)
(*     the per-video task, the batch coordinator and the statistics;       *)
(*   - ChunkedDownloader (yt_dlp_enhanced.py): segment computation,        *)
(*     resume check, ranged GETs, merge.                                   *)
(* Coroutine code between two awaits runs atomically on the event loop,    *)
(* so an action is one such stretch of code.  Calls handed to the thread   *)
(* pool (the yt-dlp backend) finish in their own action.                   *)
(***************************************************************************)
EXTENDS Integers, Sequences, FiniteSets, TLC

(***************************************************************************)
(* Bounds of the model.                                                    *)
(***************************************************************************)
\* longest URL list handed to download_batch / number of direct calls
NumUrls == 2
\* largest max_concurrent the downloader is constructed with
MaxConcurrent == 2

(***************************************************************************)
(* Strings are sequences of one-character strings, so that the filename    *)
(* sanitizer can work on them character by character.                      *)
(***************************************************************************)
Alnum == {"a", "b", "c", "x", "1", "2", "3", "4"}
KeptPunct == {" ", ".", "_", "-"}

RECURSIVE KeepChars(_)
KeepChars(name) ==
    IF name = <<>> THEN <<>>
    ELSE IF Head(name) \in Alnum \cup KeptPunct
         THEN <<Head(name)>> \o KeepChars(Tail(name))
         ELSE KeepChars(Tail(name))

RECURSIVE LStrip(_)
LStrip(s) == IF s # <<>> /\ Head(s) = " " THEN LStrip(Tail(s)) ELSE s

RECURSIVE RStrip(_)
RStrip(s) ==
    IF s # <<>> /\ s[Len(s)] = " " THEN RStrip(SubSeq(s, 1, Len(s) - 1)) ELSE s

\* strip first, then drop the characters that are not kept
StripThenKeep(name) == KeepChars(RStrip(LStrip(name)))

\* DuplicateChecker._sanitize_filename, and the same expression inlined in
\* download_video_optimized and in sanitize_filename of yt-dlp_downloader.py
_sanitize_filename(name) == RStrip(LStrip(KeepChars(name)))

(***************************************************************************)
(* Formats and the two format selectors.  A missing/None numeric field is  *)
(* the value 0, which is what `f.get(k, 0) or 0` makes of it; a missing    *)
(* fps is 0 as well and the selectors read it as 30 (`f.get('fps', 30) or  *)
(* 30`).                                                                   *)
(***************************************************************************)
FmtAV    == [format_id |-> "22",  vcodec |-> "avc1", acodec |-> "mp4a",
             ext |-> "mp4", height |-> 720, fps |-> 30, tbr |-> 1000,
             vbr |-> 0, filesize |-> 2]
FmtVideo == [format_id |-> "137", vcodec |-> "avc1", acodec |-> "none",
             ext |-> "mp4", height |-> 1080, fps |-> 30, tbr |-> 2000,
             vbr |-> 0, filesize |-> 3]
FmtAudio == [format_id |-> "140", vcodec |-> "none", acodec |-> "mp4a",
             ext |-> "m4a", height |-> 0, fps |-> 0, tbr |-> 128,
             vbr |-> 0, filesize |-> 1]
\* video and audio in a container that is neither mp4 nor webm; no fps, no
\* tbr, only vbr
Fmt3gp   == [format_id |-> "17",  vcodec |-> "mp4v", acodec |-> "mp4a",
             ext |-> "3gp", height |-> 144, fps |-> 0, tbr |-> 0,
             vbr |-> 80, filesize |-> 1]
\* Fmt3gp with a declared frame rate
Fmt36    == [format_id |-> "36",  vcodec |-> "mp4v", acodec |-> "mp4a",
             ext |-> "3gp", height |-> 144, fps |-> 15, tbr |-> 0,
             vbr |-> 80, filesize |-> 1]
\* video and audio, scored by format_score exactly like FmtAV
Fmt18    == [format_id |-> "18",  vcodec |-> "avc1", acodec |-> "mp4a",
             ext |-> "mp4", height |-> 360, fps |-> 60, tbr |-> 1000,
             vbr |-> 0, filesize |-> 1]
\* video only, above the default height ceiling
Fmt313   == [format_id |-> "313", vcodec |-> "vp9", acodec |-> "none",
             ext |-> "webm", height |-> 2160, fps |-> 30, tbr |-> 2500,
             vbr |-> 0, filesize |-> 3]
\* "no format": the {} / None the selectors return, falsy in Python
NoFormat == [format_id |-> "", vcodec |-> "none", acodec |-> "none",
             ext |-> "", height |-> 0, fps |-> 0, tbr |-> 0,
             vbr |-> 0, filesize |-> 0]

\* list.sort(key=..., reverse=True)[0], keys being the sort keys of s in list
\* order, taking the last of the formats of maximal key
LastMax(s, keys) ==
    LET best == CHOOSE i \in 1..Len(s) :
                    /\ \A j \in 1..Len(s) : keys[j] <= keys[i]
                    /\ \A j \in (i + 1)..Len(s) : keys[j] < keys[i]
    IN  s[best]

\* list.sort(key=..., reverse=True)[0], keys being the sort keys of s in list
\* order: the sort is stable, so among the formats of maximal key the first
\* one in list order comes first
FirstMax(s, keys) ==
    LET best == CHOOSE i \in 1..Len(s) :
                    /\ \A j \in 1..Len(s) : keys[j] <= keys[i]
                    /\ \A j \in 1..(i - 1) : keys[j] < keys[i]
    IN  s[best]

\* AsyncYoutubeDownloader._select_best_format.quality_score, times 1000
\* (the code divides the bitrate by 1000)
quality_score(f) ==
    LET fps == IF f.fps = 0 THEN 30 ELSE f.fps
    IN  (f.height * fps) * 1000 + f.tbr

\* AsyncYoutubeDownloader._select_best_format with target_resolution=None
_select_best_format(formats) ==
    LET video_formats == SelectSeq(formats, LAMBDA f : f.vcodec # "none")
    IN  IF video_formats = <<>>
        THEN IF formats # <<>> THEN formats[1] ELSE NoFormat
        ELSE FirstMax(video_formats,
                      [i \in 1..Len(video_formats) |->
                          quality_score(video_formats[i])])

\* the default of the max_height parameter of _select_optimal_format
max_height == 1080

\* OptimizedYoutubeDownloader._select_optimal_format.format_score, mh being
\* the max_height of the enclosing call
format_score(f, mh) ==
    LET height == IF f.height > mh THEN mh ELSE f.height
        fps == IF f.fps = 0 THEN 30 ELSE f.fps
        bitrate == IF f.tbr # 0 THEN f.tbr ELSE f.vbr
        audio_bonus == IF f.acodec # "none" THEN 1000 ELSE 0
        format_bonus == IF f.ext = "mp4" THEN 500 ELSE 0
    IN  height * fps + bitrate + audio_bonus + format_bonus

\* OptimizedYoutubeDownloader._select_optimal_format(formats, max_height=mh)
_select_optimal_format(formats, mh) ==
    LET preferred == SelectSeq(formats,
                        LAMBDA f : /\ f.vcodec # "none"
                                   /\ f.acodec # "none"
                                   /\ f.ext \in {"mp4", "webm"})
        anyVideo == SelectSeq(formats, LAMBDA f : f.vcodec # "none")
        video_formats == IF preferred # <<>> THEN preferred ELSE anyVideo
    IN  IF formats = <<>> \/ video_formats = <<>>
        THEN NoFormat
        ELSE FirstMax(video_formats,
                      [i \in 1..Len(video_formats) |->
                          format_score(video_formats[i], mh)])

(***************************************************************************)
(* The videos behind the URLs: what extract_info yields for them.          *)
(***************************************************************************)
Videos ==
    { [video_id |-> <<"x", "1">>, title |-> <<"a", "?">>,
       formats |-> <<FmtAV, FmtVideo>>],
      [video_id |-> <<"x", "2">>, title |-> <<"b">>,
       formats |-> <<FmtAudio>>],
      [video_id |-> <<"x", "3">>, title |-> <<"c", " ">>,
       formats |-> <<>>],
      [video_id |-> <<"x", "4">>, title |-> <<"/", "a">>,
       formats |-> <<FmtVideo>>] }

\* media extensions DuplicateChecker recognises
MediaExts == {"mp4", "mkv", "webm"}

\* download directories the downloader may be constructed over: files are
\* <<stem, extension>>
InitialDirs ==
    { {},
      { << <<"a">>, "mp4" >> },
      { << <<"a">>, "webm" >> },
      { << <<"x", "1">>, "mkv" >> } }

(***************************************************************************)
(* State.                                                                  *)
(***************************************************************************)
VARIABLES
    impl,            \* "async": AsyncYoutubeDownloader, "enhanced": OptimizedYoutubeDownloader
    max_concurrent,  \* self.max_concurrent
    urls,            \* the URL list, each URL standing for the video behind it
    download_dir,    \* media files in the download directory: <<stem, ext>>
    downloaded_ids,  \* DuplicateChecker.downloaded_ids
    semaphore,       \* asyncio.Semaphore._value
    stats,           \* DownloadStats / self.stats
    pcBatch,         \* where download_batch is; "direct": callers use the per-video call
    task,            \* per URL: where its extraction / per-video call is
    info,            \* per URL: was the per-video call given the video info
    backend,         \* per URL: what ydl.download returned in the thread pool
    result,          \* per URL: how its task ended
    results          \* download_batch: <<url index, success>> in completion order

batchVars == <<impl, max_concurrent, urls, download_dir, downloaded_ids,
               semaphore, stats, pcBatch, task, info, backend, result, results>>

Urls == 1..Len(urls)

\* the per-video call holds a permit in these task states
Holding == {"extract_held", "transferring", "resolved"}

\* results for which the per-video call returns (True, ...)
SuccessResults == {"skipped", "completed"}

(***************************************************************************)
(* asyncio.Semaphore                                                       *)
(***************************************************************************)
\* Semaphore.acquire returns only when a permit is there
CanAcquireNoBound(value) == TRUE
CanAcquire(value) == value > 0

Acquire(value) == value - 1

\* `async with self.semaphore` leaves through __aexit__ on return and on
\* exception alike
ReleaseLost(value) == value
Release(value) == value + 1

(***************************************************************************)
(* DuplicateChecker                                                        *)
(***************************************************************************)
\* DuplicateChecker._scan_existing
_scan_existing(dir) == { f[1] : f \in { g \in dir : g[2] \in MediaExts } }

\* DuplicateChecker.is_downloaded
is_downloaded(video_id, title) ==
    LET clean_title == _sanitize_filename(title)
    IN  \/ video_id \in downloaded_ids
        \/ clean_title \in downloaded_ids
        \/ \E ext \in MediaExts : <<clean_title, ext>> \in download_dir

\* marking under the title as given
MarkRawTitle(ids, video_id, title) == ids \cup {video_id, title}

\* marking under the id alone
MarkIdOnly(ids, video_id, title) == ids \cup {video_id}

\* DuplicateChecker.mark_downloaded
mark_downloaded(ids, video_id, title) ==
    ids \cup {video_id, _sanitize_filename(title)}

\* download_video_optimized: output_path.exists() for <clean_title>.mp4
output_path_exists(title) == <<_sanitize_filename(title), "mp4">> \in download_dir

\* the duplicate check each downloader makes
AlreadyThere(v) ==
    IF impl = "async" THEN is_downloaded(v.video_id, v.title)
    ELSE output_path_exists(v.title)

\* the format each downloader selects
BestFormat(v) ==
    IF impl = "async" THEN _select_best_format(v.formats)
    ELSE _select_optimal_format(v.formats, max_height)

(***************************************************************************)
(* Initial state: a downloader freshly constructed over a directory.       *)
(***************************************************************************)
UrlLists == UNION { [1..n -> Videos] : n \in 0..NumUrls }

BatchInit ==
    /\ impl \in {"async", "enhanced"}
    /\ max_concurrent \in 1..MaxConcurrent
    /\ urls \in UrlLists
    /\ download_dir \in InitialDirs
    /\ downloaded_ids = IF impl = "async" THEN _scan_existing(download_dir) ELSE {}
    /\ semaphore = max_concurrent
    /\ stats = [total |-> 0, completed |-> 0, failed |-> 0, skipped |-> 0,
                bytes |-> 0]
    /\ pcBatch = "idle"
    /\ task = [u \in Urls |-> "new"]
    /\ info = [u \in Urls |-> FALSE]
    /\ backend = [u \in Urls |-> "none"]
    /\ result = [u \in Urls |-> "none"]
    /\ results = <<>>

(***************************************************************************)
(* The per-video call: download_video / download_video_optimized.          *)
(***************************************************************************)
\* the call returns: the permit goes back, the batch loop sees the result
Return(u, how, value, newStats) ==
    /\ task' = [task EXCEPT ![u] = "done"]
    /\ result' = [result EXCEPT ![u] = how]
    /\ semaphore' = Release(value)
    /\ stats' = newStats
    /\ results' = IF pcBatch = "downloading"
                  THEN Append(results, <<u, how \in SuccessResults>>)
                  ELSE results

\* From the duplicate check to the await of the backend download, with the
\* permit held and `value` permits left: async lines 229-263, enhanced
\* lines 299-375.
Proceed(u, value) ==
    LET v == urls[u] IN
    IF AlreadyThere(v)
    THEN Return(u, "skipped", value, [stats EXCEPT !.skipped = @ + 1])
    ELSE IF BestFormat(v) = NoFormat
    THEN Return(u, "no_format", value,
                IF impl = "async" THEN stats
                ELSE [stats EXCEPT !.failed = @ + 1])
    ELSE /\ task' = [task EXCEPT ![u] = "transferring"]
         /\ semaphore' = value
         /\ UNCHANGED <<result, stats, results>>

\* a caller invokes the per-video call without video info (main() of
\* yt_dlp_async.py, download_worker of youtube_downloader_web.py)
DirectCall(u) ==
    /\ pcBatch \in {"idle", "direct"}
    /\ task[u] = "new"
    /\ pcBatch' = "direct"
    /\ task' = [task EXCEPT ![u] = "created"]
    /\ UNCHANGED <<impl, max_concurrent, urls, download_dir, downloaded_ids,
                   semaphore, stats, info, backend, result, results>>

\* `async with self.semaphore:` is entered; the call runs up to its first await
TaskStart(u) ==
    /\ task[u] = "created"
    /\ CanAcquire(semaphore)
    /\ IF info[u]
       THEN Proceed(u, Acquire(semaphore))
       ELSE /\ task' = [task EXCEPT ![u] = "extract_held"]
            /\ semaphore' = Acquire(semaphore)
            /\ UNCHANGED <<result, stats, results>>
    /\ UNCHANGED <<impl, max_concurrent, urls, download_dir, downloaded_ids,
                   pcBatch, info, backend>>

\* the extraction awaited inside the call settles
ExtractReturn(u, outcome) ==
    /\ task[u] = "extract_held"
    /\ CASE outcome = "info" -> Proceed(u, semaphore)
         [] outcome = "none" ->
                Return(u, "extract_failed", semaphore,
                       IF impl = "async" THEN stats
                       ELSE [stats EXCEPT !.failed = @ + 1])
         [] outcome = "raise" ->
                \* async: extract_info catches it and returns None;
                \* enhanced: the call's own except clause
                IF impl = "async"
                THEN Return(u, "extract_failed", semaphore, stats)
                ELSE Return(u, "error", semaphore,
                            [stats EXCEPT !.failed = @ + 1])
    /\ UNCHANGED <<impl, max_concurrent, urls, download_dir, downloaded_ids,
                   pcBatch, info, backend>>

\* ydl.download finishes in the thread pool; on 0 the merged mp4 is on disk
BackendReturn(u, outcome) ==
    /\ task[u] = "transferring"
    /\ task' = [task EXCEPT ![u] = "resolved"]
    /\ backend' = [backend EXCEPT ![u] = outcome]
    /\ download_dir' =
           IF outcome = "zero"
           THEN download_dir \cup { <<_sanitize_filename(urls[u].title), "mp4">> }
           ELSE download_dir
    /\ UNCHANGED <<impl, max_concurrent, urls, downloaded_ids, semaphore,
                   stats, pcBatch, info, result, results>>

\* the call resumes after `await loop.run_in_executor(...)`
TaskResume(u) ==
    LET v == urls[u]
        best_format == BestFormat(v)
    IN
    /\ task[u] = "resolved"
    /\ CASE backend[u] = "zero" ->
                /\ Return(u, "completed", semaphore,
                          [stats EXCEPT !.completed = @ + 1,
                                        !.bytes = @ + best_format.filesize])
                /\ downloaded_ids' =
                       IF impl = "async"
                       THEN mark_downloaded(downloaded_ids, v.video_id, v.title)
                       ELSE downloaded_ids
         [] backend[u] = "nonzero" ->
                /\ Return(u, "download_failed", semaphore,
                          [stats EXCEPT !.failed = @ + 1])
                /\ UNCHANGED downloaded_ids
         [] backend[u] = "raise" ->
                /\ Return(u, "error", semaphore,
                          [stats EXCEPT !.failed = @ + 1])
                /\ UNCHANGED downloaded_ids
    /\ UNCHANGED <<impl, max_concurrent, urls, download_dir, pcBatch, info,
                   backend>>

(***************************************************************************)
(* download_batch                                                          *)
(***************************************************************************)
\* download_batch up to the gather of the metadata extractions
DownloadBatch ==
    /\ pcBatch = "idle"
    /\ pcBatch' = "prefetch"
    /\ stats' = [stats EXCEPT !.total = Len(urls)]
    /\ task' = [u \in Urls |-> "extracting"]
    /\ UNCHANGED <<impl, max_concurrent, urls, download_dir, downloaded_ids,
                   semaphore, info, backend, result, results>>

\* one metadata extraction of the pre-fetch settles: info, or None / exception
ExtractInfoDone(u, ok) ==
    /\ pcBatch = "prefetch"
    /\ task[u] = "extracting"
    /\ task' = [task EXCEPT ![u] = IF ok THEN "fetched" ELSE "fetch_failed"]
    /\ UNCHANGED <<impl, max_concurrent, urls, download_dir, downloaded_ids,
                   semaphore, stats, pcBatch, info, backend, result, results>>

\* the gather is over: valid_downloads is filtered and the per-video calls
\* are created
StartDownloads ==
    /\ pcBatch = "prefetch"
    /\ \A u \in Urls : task[u] \in {"fetched", "fetch_failed"}
    /\ pcBatch' = "downloading"
    /\ task' = [u \in Urls |-> IF task[u] = "fetched" THEN "created" ELSE "dropped"]
    /\ info' = [u \in Urls |-> task[u] = "fetched"]
    /\ result' = [u \in Urls |-> IF task[u] = "fetched" THEN "none" ELSE "dropped"]
    /\ UNCHANGED <<impl, max_concurrent, urls, download_dir, downloaded_ids,
                   semaphore, stats, backend, results>>

\* as_completed is exhausted: the statistics are printed
BatchFinish ==
    /\ pcBatch = "downloading"
    /\ \A u \in Urls : task[u] \in {"done", "dropped"}
    /\ pcBatch' = "done"
    /\ UNCHANGED <<impl, max_concurrent, urls, download_dir, downloaded_ids,
                   semaphore, stats, task, info, backend, result, results>>

(***************************************************************************)
(* ChunkedDownloader                                                       *)
(***************************************************************************)
\* largest source file, in blocks (a block is what one write puts on disk)
MaxTotalSize == 3
\* largest chunk_size the ChunkedDownloader is constructed with
MaxChunkSize == 2
\* how often download_with_resume is invoked for the same output path
MaxAttempts == 2

VARIABLES
    chunk_size,      \* self.chunk_size
    source,          \* the bytes of the remote file
    temp_dir,        \* does .<stem>_chunks exist
    chunk_files,     \* the files chunk_0000, chunk_0001, ... of temp_dir
    output_file,     \* the file at output_path
    callback,        \* progress_callback: "none", or "given" (any call of it may raise)
    pcDl,            \* where download_with_resume is
    attempt,         \* number of invocations so far
    path,            \* "chunked" or "simple" once the probe has decided
    chunks,          \* the ChunkInfo list
    tasks,           \* indices of the chunks a download_chunk task was made for
    seg,             \* per chunk index: state of its download_chunk task
    gets,            \* per chunk index: ranged GETs issued in this invocation
    mergeIdx,        \* loop index of the merge
    dlResult,        \* "true" / "false": returned value, "raised": exception
    filesAtStart,    \* the complete segment files the invocation found
    mergeStarted,    \* has this invocation opened output_path for the merge
    everComplete,    \* chunk indices whose file had its full length at some
                     \* moment of this invocation
    probe            \* what get_file_info returned to this invocation

dlVars == <<chunk_size, source, temp_dir, chunk_files, output_file, callback,
            pcDl, attempt, path, chunks, tasks, seg, gets, mergeIdx, dlResult,
            filesAtStart, mergeStarted, everComplete, probe>>

\* chunk indices, 0-based as in the code
ChunkIdx == 0..(MaxTotalSize - 1)

Absent == [exists |-> FALSE, data |-> <<>>]
File(data) == [exists |-> TRUE, data |-> data]

Min(a, b) == IF a < b THEN a ELSE b

\* download_with_resume, "Calculate chunks": for i in range(0, total_size,
\* self.chunk_size)
\* the same with the end of a segment one byte too far
RECURSIVE ChunksFromOverlap(_, _, _)
ChunksFromOverlap(i, total, size) ==
    IF i >= total THEN <<>>
    ELSE <<[start |-> i, end |-> Min(i + size, total - 1), downloaded |-> 0]>>
         \o ChunksFromOverlap(i + size, total, size)

RECURSIVE ChunksFrom(_, _, _)
ChunksFrom(i, total, size) ==
    IF i >= total THEN <<>>
    ELSE <<[start |-> i, end |-> Min(i + size - 1, total - 1), downloaded |-> 0]>>
         \o ChunksFrom(i + size, total, size)

CalcChunks(total, size) == ChunksFrom(0, total, size)

ChunkLen(c) == c.end - c.start + 1

\* a segment file that is on disk with exactly the length of its segment
FullLength(f, c) == f.exists /\ Len(f.data) = ChunkLen(c)

\* the resume check: chunk_path.exists() and st_size == end - start + 1
NeverComplete(f, c) == FALSE
IsComplete(f, c) == f.exists /\ Len(f.data) = ChunkLen(c)

\* body of the response to `GET Range: bytes=start-end`: a 206 carries the
\* range, a 200 carries the whole file
Body(status, c) ==
    IF status = "206" THEN SubSeq(source, c.start + 1, c.end + 1) ELSE source

Prefix(s, n) == SubSeq(s, 1, n)

\* indices (0-based) of the chunks of cs that are not complete, in order
RECURSIVE Unsatisfied(_, _, _)
Unsatisfied(cs, files, i) ==
    IF i >= Len(cs) THEN <<>>
    ELSE (IF IsComplete(files[i], cs[i + 1]) THEN <<>> ELSE <<i>>)
         \o Unsatisfied(cs, files, i + 1)

SeqToSet(s) == { s[k] : k \in 1..Len(s) }

\* get_file_info has not returned in this call
NoProbe == [total_size |-> 0 - 1, supports_ranges |-> FALSE]

DlInit ==
    /\ chunk_size \in 1..MaxChunkSize
    /\ source \in { [k \in 1..n |-> k] : n \in 0..MaxTotalSize }
    /\ temp_dir = FALSE
    /\ chunk_files = [i \in ChunkIdx |-> Absent]
    /\ output_file = Absent
    /\ callback = "none"
    /\ pcDl = "idle"
    /\ attempt = 0
    /\ path = "none"
    /\ chunks = <<>>
    /\ tasks = <<>>
    /\ seg = [i \in ChunkIdx |-> "none"]
    /\ gets = [i \in ChunkIdx |-> 0]
    /\ mergeIdx = 0
    /\ dlResult = "none"
    /\ filesAtStart = [i \in ChunkIdx |-> Absent]
    /\ mergeStarted = FALSE
    /\ everComplete = {}
    /\ probe = NoProbe

\* download_with_resume leaves with `how`
DlReturn(how) ==
    /\ pcDl' = "returned"
    /\ dlResult' = how

\* download_with_resume is invoked, for the first time or again after an
\* attempt that did not succeed: temp_dir.mkdir, then the HEAD is awaited
DlStart(cb) ==
    /\ pcDl = "idle" \/ (pcDl = "returned" /\ dlResult # "true")
    /\ attempt < MaxAttempts
    /\ attempt' = attempt + 1
    /\ callback' = cb
    /\ temp_dir' = TRUE
    /\ pcDl' = "probing"
    /\ path' = "none"
    /\ chunks' = <<>>
    /\ tasks' = <<>>
    /\ seg' = [i \in ChunkIdx |-> "none"]
    /\ gets' = [i \in ChunkIdx |-> 0]
    /\ mergeIdx' = 0
    /\ dlResult' = "none"
    /\ filesAtStart' = [i \in ChunkIdx |-> Absent]
    /\ mergeStarted' = FALSE
    /\ everComplete' = {}
    /\ probe' = NoProbe
    /\ UNCHANGED <<chunk_size, source, chunk_files, output_file>>

\* get_file_info raises (the HEAD fails): the exception leaves the call
ProbeRaise ==
    /\ pcDl = "probing"
    /\ DlReturn("raised")
    /\ UNCHANGED <<probe, chunk_size, source, temp_dir, chunk_files, output_file,
                   callback, attempt, path, chunks, tasks, seg, gets, mergeIdx,
                   filesAtStart, mergeStarted, everComplete>>

\* the fallback is taken only when ranges are unsupported
FallbackOnlyUnsupported(total_size, supports_ranges) == ~supports_ranges

\* if not supports_ranges or total_size == 0
UseFallback(total_size, supports_ranges) == ~supports_ranges \/ total_size = 0

\* get_file_info returns (total_size, supports_ranges); lines 82-111: the
\* fallback, or the chunks, the resume check, the first progress report and
\* the start of the gather.  cbRaises: the progress callback raises.
ProbeReturn(total_size, supports_ranges, cbRaises) ==
    LET cs == CalcChunks(total_size, chunk_size)
        ts == Unsatisfied(cs, chunk_files, 0)
        satisfied == (0..(Len(cs) - 1)) \ SeqToSet(ts)
    IN
    /\ pcDl = "probing"
    /\ probe' = [total_size |-> total_size, supports_ranges |-> supports_ranges]
    /\ IF UseFallback(total_size, supports_ranges)
       THEN /\ ~cbRaises
            /\ pcDl' = "simple"
            /\ path' = "simple"
            /\ UNCHANGED <<chunks, tasks, seg, gets, dlResult, everComplete,
                           filesAtStart>>
       ELSE /\ path' = "chunked"
            /\ filesAtStart' = [i \in ChunkIdx |->
                                  IF i < Len(cs) /\ FullLength(chunk_files[i], cs[i + 1])
                                  THEN chunk_files[i] ELSE Absent]
            /\ chunks' = [k \in 1..Len(cs) |->
                            IF (k - 1) \in satisfied
                            THEN [cs[k] EXCEPT !.downloaded = ChunkLen(cs[k])]
                            ELSE cs[k]]
            /\ tasks' = ts
            /\ everComplete' = { i \in 0..(Len(cs) - 1) :
                                    FullLength(chunk_files[i], cs[i + 1]) }
            /\ cbRaises => (callback = "given" /\ ts # <<>>)
            /\ IF cbRaises
               THEN DlReturn("raised") /\ UNCHANGED <<seg, gets>>
               ELSE /\ seg' = [i \in ChunkIdx |->
                                 IF i \in SeqToSet(ts) THEN "inflight" ELSE "none"]
                    /\ gets' = [i \in ChunkIdx |->
                                 IF i \in SeqToSet(ts) THEN gets[i] + 1 ELSE gets[i]]
                    /\ pcDl' = IF ts = <<>> THEN "merge_open" ELSE "gathering"
                    /\ UNCHANGED dlResult
    /\ UNCHANGED <<chunk_size, source, temp_dir, chunk_files, output_file,
                   callback, attempt, mergeIdx, mergeStarted>>

\* download_chunk for chunk i settles.  status: what the server answered
\* ("error": session.get raised); n: blocks of the body that reached the
\* chunk file before the stream ended or broke.
DownloadChunk(i, status, n) ==
    LET c == chunks[i + 1]
        body == Body(status, c)
        written == File(Prefix(body, n))
    IN
    /\ pcDl = "gathering"
    /\ seg[i] = "inflight"
    /\ IF status \in {"200", "206"}
       THEN /\ n \in 0..Len(body)
            /\ chunk_files' = [chunk_files EXCEPT ![i] = written]
            /\ seg' = [seg EXCEPT ![i] = IF n = Len(body) THEN "ok" ELSE "failed"]
            /\ everComplete' = IF FullLength(written, c)
                               THEN everComplete \cup {i} ELSE everComplete
       ELSE /\ n = 0
            /\ seg' = [seg EXCEPT ![i] = "failed"]
            /\ UNCHANGED <<chunk_files, everComplete>>
    /\ UNCHANGED <<probe, chunk_size, source, temp_dir, output_file, callback, pcDl,
                   attempt, path, chunks, tasks, gets, mergeIdx, dlResult,
                   filesAtStart, mergeStarted>>

\* where the response stream of segment i may end: before the first block,
\* after as many blocks as the segment has, or with the whole file sent.  Any
\* other length leaves a file of a wrong size, as the empty one is.
StreamLengths(i) ==
    IF i < Len(chunks) THEN {0, ChunkLen(chunks[i + 1]), Len(source)} ELSE {0}

\* number of leading tasks whose result is True
RECURSIVE LeadingOk(_, _)
LeadingOk(ts, sg) ==
    IF ts = <<>> \/ sg[Head(ts)] # "ok" THEN 0
    ELSE 1 + LeadingOk(Tail(ts), sg)

\* the gather is over: the loop over the results, lines 113-118
AfterGather(cbRaises) ==
    LET ok == LeadingOk(tasks, seg)
        done == { tasks[k] : k \in 1..ok }
    IN
    /\ pcDl = "gathering"
    /\ \A k \in 1..Len(tasks) : seg[tasks[k]] \in {"ok", "failed"}
    /\ cbRaises => (callback = "given" /\ ok > 0)
    /\ chunks' = [k \in 1..Len(chunks) |->
                    IF (k - 1) \in done /\ ~cbRaises
                    THEN [chunks[k] EXCEPT !.downloaded = ChunkLen(chunks[k])]
                    ELSE chunks[k]]
    /\ IF cbRaises THEN DlReturn("raised")
       ELSE IF ok < Len(tasks) THEN DlReturn("false")
       ELSE pcDl' = "merge_open" /\ UNCHANGED dlResult
    /\ UNCHANGED <<probe, chunk_size, source, temp_dir, chunk_files, output_file,
                   callback, attempt, path, tasks, seg, gets, mergeIdx,
                   filesAtStart, mergeStarted, everComplete>>

\* aiofiles.open(output_path, 'wb')
MergeOpen ==
    /\ pcDl = "merge_open"
    /\ output_file' = File(<<>>)
    /\ mergeIdx' = 0
    /\ mergeStarted' = TRUE
    /\ pcDl' = "merging"
    /\ UNCHANGED <<probe, chunk_size, source, temp_dir, chunk_files, callback, attempt,
                   path, chunks, tasks, seg, gets, dlResult, filesAtStart,
                   everComplete>>

\* a write that appends nothing
WriteNothing(file, data) == file

\* await output_file.write(data)
write(file, data) == File(file.data \o data)

\* a merge loop that takes the segments last first
MergeRoundReversed(k, n) == n - 1 - k

\* `for i in range(len(chunks))`: the segment index of round k of n (0-based)
MergeRound(k, n) == k

\* one round of the merge loop: read chunk i, append it, unlink it
MergeStep ==
    LET i == MergeRound(mergeIdx, Len(chunks)) IN
    /\ pcDl = "merging"
    /\ mergeIdx < Len(chunks)
    /\ IF chunk_files[i].exists
       THEN /\ output_file' = write(output_file, chunk_files[i].data)
            /\ chunk_files' = [chunk_files EXCEPT ![i] = Absent]
            /\ mergeIdx' = mergeIdx + 1
            /\ UNCHANGED <<pcDl, dlResult>>
       ELSE /\ DlReturn("raised")
            /\ UNCHANGED <<output_file, chunk_files, mergeIdx>>
    /\ UNCHANGED <<probe, chunk_size, source, temp_dir, callback, attempt, path,
                   chunks, tasks, seg, gets, filesAtStart, mergeStarted, everComplete>>

\* the loop is over: temp_dir.rmdir(), return True
MergeFinish ==
    /\ pcDl = "merging"
    /\ mergeIdx = Len(chunks)
    /\ IF \E i \in ChunkIdx : chunk_files[i].exists
       THEN DlReturn("raised") /\ UNCHANGED temp_dir
       ELSE DlReturn("true") /\ temp_dir' = FALSE
    /\ UNCHANGED <<probe, chunk_size, source, chunk_files, output_file, callback,
                   attempt, path, chunks, tasks, seg, gets, mergeIdx,
                   filesAtStart, mergeStarted, everComplete>>

\* _simple_download settles.  status: the answer to the plain GET ("error":
\* session.get raised); n: blocks written before the stream ended or broke;
\* cbRaises: the progress callback raised after block n.
SimpleDownload(status, n, cbRaises) ==
    /\ pcDl = "simple"
    /\ IF status = "200"
       THEN /\ n \in 0..Len(source)
            /\ cbRaises => (callback = "given" /\ n > 0)
            /\ output_file' = File(Prefix(source, n))
            /\ DlReturn(IF n = Len(source) /\ ~cbRaises THEN "true" ELSE "false")
       ELSE /\ n = 0 /\ ~cbRaises
            /\ DlReturn("false")
            /\ UNCHANGED output_file
    /\ UNCHANGED <<probe, chunk_size, source, temp_dir, chunk_files, callback, attempt,
                   path, chunks, tasks, seg, gets, mergeIdx, filesAtStart, mergeStarted,
                   everComplete>>

Statuses == {"200", "206", "500", "error"}

(***************************************************************************)
(* The segment computation on its own, over larger sizes.                  *)
(***************************************************************************)
\* largest total size and chunk size the computation is tried on
MaxPartTotal == 26
MaxPartChunk == 11
\* ChunkedDownloader.__init__: chunk_size = 10 * 1024 * 1024
DefaultChunkSize == 10 * 1024 * 1024

VARIABLES
    partIn,          \* <<total_size, chunk_size>>
    partOut,         \* the chunks computed for partIn
    partDone         \* has the computation run

partVars == <<partIn, partOut, partDone>>

PartInputs ==
    ((1..MaxPartTotal) \X (1..MaxPartChunk)) \cup { <<25 * 1024 * 1024, DefaultChunkSize>> }

PartInit ==
    /\ partIn \in PartInputs
    /\ partOut = <<>>
    /\ partDone = FALSE

Partition ==
    /\ ~partDone
    /\ partOut' = CalcChunks(partIn[1], partIn[2])
    /\ partDone' = TRUE
    /\ UNCHANGED partIn

(***************************************************************************)
(* The format selectors applied to format lists.                           *)
(***************************************************************************)
\* longest formats list handed to the selectors
MaxFormats == 3

VARIABLES
    selFormats,    \* the formats argument
    selMaxHeight,  \* the max_height argument of _select_optimal_format
    selBest,       \* what _select_best_format returned
    selOptimal,    \* what _select_optimal_format returned
    selDone        \* the selectors have returned

selVars == <<selFormats, selMaxHeight, selBest, selOptimal, selDone>>

\* the formats an extraction may list
FormatPool == {FmtAV, FmtVideo, FmtAudio, Fmt3gp, Fmt36, Fmt18, Fmt313}

FormatLists == UNION { [1..n -> FormatPool] : n \in 0..MaxFormats }

\* height ceilings: below, at and above the default
MaxHeights == {720, max_height, 2160}

SelInit ==
    /\ selFormats \in FormatLists
    /\ selMaxHeight \in MaxHeights
    /\ selBest = NoFormat
    /\ selOptimal = NoFormat
    /\ selDone = FALSE

\* best_format = self._select_best_format(video_info.formats) and
\* best_format = self._select_optimal_format(formats, max_height)
SelectFormat ==
    /\ ~selDone
    /\ selBest' = _select_best_format(selFormats)
    /\ selOptimal' = _select_optimal_format(selFormats, selMaxHeight)
    /\ selDone' = TRUE
    /\ UNCHANGED <<selFormats, selMaxHeight>>

(***************************************************************************)
(* The filename sanitizer applied to names, and to its own result.         *)
(***************************************************************************)
\* longest name handed to the sanitizer
MaxNameLen == 4

VARIABLES
    sanIn,     \* the name
    sanOut,    \* _sanitize_filename(name)
    sanAgain,  \* _sanitize_filename(_sanitize_filename(name))
    sanStep    \* how many times the sanitizer has been applied

sanVars == <<sanIn, sanOut, sanAgain, sanStep>>

\* a character that is kept, the space that is kept inside and stripped at
\* the ends, a kept punctuation mark, and two characters that are dropped
NameChars == {"a", " ", ".", "?", "/"}

Names == UNION { [1..n -> NameChars] : n \in 0..MaxNameLen }

SanInit ==
    /\ sanIn \in Names
    /\ sanOut = <<>>
    /\ sanAgain = <<>>
    /\ sanStep = 0

\* clean = _sanitize_filename(name)
Sanitize ==
    /\ sanStep = 0
    /\ sanOut' = _sanitize_filename(sanIn)
    /\ sanStep' = 1
    /\ UNCHANGED <<sanIn, sanAgain>>

\* _sanitize_filename(clean): is_downloaded and download_video sanitize a
\* title that mark_downloaded has sanitized before
SanitizeAgain ==
    /\ sanStep = 1
    /\ sanAgain' = _sanitize_filename(sanOut)
    /\ sanStep' = 2
    /\ UNCHANGED <<sanIn, sanOut>>

(***************************************************************************)
(* DuplicateChecker on its own: marking and checking.                      *)
(***************************************************************************)
\* most mark_downloaded calls on one DuplicateChecker
MaxMarks == 2

VARIABLES
    dupMarked,  \* the <<video_id, title>> pairs mark_downloaded was called with
    dupAsked    \* the last is_downloaded call and its answer, since the last mark

dupVars == <<dupMarked, dupAsked>>

DupIds == { <<"x", "1">>, <<"x", "2">>, <<"a">> }

DupTitles == { <<"a", "?">>, <<"/", "a">>, <<"b">>, <<" ", "a", " ">>, <<"?">> }

NotAsked == [video_id |-> <<>>, title |-> <<>>, asked |-> FALSE, answer |-> FALSE]

DupInit ==
    /\ download_dir \in InitialDirs
    /\ downloaded_ids = _scan_existing(download_dir)
    /\ dupMarked = {}
    /\ dupAsked = NotAsked

\* duplicate_checker.mark_downloaded(video_id, title)
MarkDownloaded(video_id, title) ==
    /\ Cardinality(dupMarked) < MaxMarks
    /\ downloaded_ids' = mark_downloaded(downloaded_ids, video_id, title)
    /\ dupMarked' = dupMarked \cup { <<video_id, title>> }
    /\ dupAsked' = NotAsked
    /\ UNCHANGED download_dir

\* duplicate_checker.is_downloaded(video_id, title)
IsDownloaded(video_id, title) ==
    /\ dupAsked' = [video_id |-> video_id, title |-> title, asked |-> TRUE,
                    answer |-> is_downloaded(video_id, title)]
    /\ UNCHANGED <<download_dir, downloaded_ids, dupMarked>>

\* somebody removes a media file from the download directory; the checker
\* does not rescan
FileRemoved(f) ==
    /\ f \in download_dir
    /\ download_dir' = download_dir \ {f}
    /\ UNCHANGED <<downloaded_ids, dupMarked, dupAsked>>

(***************************************************************************)
(* MetadataCache: the in-memory map and the pickle file behind it.         *)
(***************************************************************************)
VARIABLES
    memory_cache,  \* MetadataCache.memory_cache: video id -> VideoInfo
    cache_file,    \* metadata.pkl: absent, a pickled map, or unreadable
    cacheLast      \* the last set(video_id, info) call and whether it returned

cacheVars == <<memory_cache, cache_file, cacheLast>>

CacheIds == { <<"x", "1">>, <<"x", "2">> }

\* the None that dict.get returns for a missing key
NoVideo == [video_id |-> <<>>, title |-> <<>>, formats |-> <<>>]

EmptyMap == [k \in {} |-> NoVideo]

CacheMaps == UNION { [d -> Videos] : d \in SUBSET CacheIds }

NoFile == [state |-> "absent", map |-> EmptyMap]

Unreadable == [state |-> "unreadable", map |-> EmptyMap]

Pickled(map) == [state |-> "pickled", map |-> map]

\* MetadataCache._load_cache: the map a cache built over `file` starts with
_load_cache(file) == IF file.state = "pickled" THEN file.map ELSE EmptyMap

\* a save that leaves the file as it is
SaveNothing(file, cache) == file

\* MetadataCache._save_cache: the file after open(.., 'wb') and pickle.dump
_save_cache(file, cache) == Pickled(cache)

\* a lookup that finds nothing
GetNothing(cache, video_id) == NoVideo

\* MetadataCache.get
get(cache, video_id) ==
    IF video_id \in DOMAIN cache THEN cache[video_id] ELSE NoVideo

\* a map that holds the new entry and nothing else
SetEntryAlone(cache, video_id, video_info) == [k \in {video_id} |-> video_info]

\* self.memory_cache[video_id] = info
SetEntry(cache, video_id, video_info) ==
    [k \in DOMAIN cache \cup {video_id} |->
        IF k = video_id THEN video_info ELSE cache[k]]

NoSet == [video_id |-> <<>>, info |-> NoVideo, called |-> FALSE,
          returned |-> FALSE]

\* MetadataCache(): constructed over a cache directory in any condition
CacheInit ==
    /\ cache_file \in {NoFile, Unreadable} \cup { Pickled(m) : m \in CacheMaps }
    /\ memory_cache = _load_cache(cache_file)
    /\ cacheLast = NoSet

\* MetadataCache.set(video_id, info).  The map is updated first; the save
\* then succeeds, or raises with the file untouched (open failed) or cut
\* short (the dump failed after open truncated the file).
CacheSet(video_id, video_info, outcome) ==
    LET updated == SetEntry(memory_cache, video_id, video_info)
    IN  /\ memory_cache' = updated
        /\ cache_file' =
               CASE outcome = "saved" -> _save_cache(cache_file, updated)
                 [] outcome = "open_raised" -> cache_file
                 [] outcome = "dump_raised" -> Unreadable
        /\ cacheLast' = [video_id |-> video_id, info |-> video_info, called |-> TRUE,
                         returned |-> outcome = "saved"]

\* the program starts again: a new MetadataCache loads the file
CacheReload ==
    /\ memory_cache' = _load_cache(cache_file)
    /\ UNCHANGED <<cache_file, cacheLast>>

(***************************************************************************)
(* AsyncYoutubeDownloader.extract_info, called by several tasks of one     *)
(* event loop over one MetadataCache.  A task runs without interruption    *)
(* up to `await loop.run_in_executor(..)` and again from there to its      *)
(* return; MetadataCache.set has no await in it.                           *)
(***************************************************************************)
\* number of extract_info tasks in flight together
NumExtract == 2

VARIABLES
    exTask,     \* task -> "new", "fetching" (awaiting the executor), "done"
    exId,       \* task -> what _extract_video_id finds in the task's url
    exResult,   \* task -> the VideoInfo returned, NoVideo for None
    exSet,      \* history: video id -> the info of the last set that returned
    exRaised,   \* history: some set raised
    exOverlap   \* history: a set ran while another task awaited its fetch

exVars == <<exTask, exId, exResult, exSet, exRaised, exOverlap>>

ExTasks == 1..NumExtract

\* _extract_video_id returned None
NoId == <<>>

ExInit ==
    /\ exTask = [t \in ExTasks |-> "new"]
    /\ exId \in [ExTasks -> CacheIds \cup {NoId}]
    /\ exResult = [t \in ExTasks |-> NoVideo]
    /\ exSet = EmptyMap
    /\ exRaised = FALSE
    /\ exOverlap = FALSE

\* extract_info up to the await: the cache lookup
ExtractInfoStart(t) ==
    LET cached == IF exId[t] # NoId THEN get(memory_cache, exId[t]) ELSE NoVideo
    IN  /\ exTask[t] = "new"
        /\ IF cached # NoVideo
              THEN /\ exTask' = [exTask EXCEPT ![t] = "done"]
                   /\ exResult' = [exResult EXCEPT ![t] = cached]
              ELSE /\ exTask' = [exTask EXCEPT ![t] = "fetching"]
                   /\ UNCHANGED exResult
        /\ UNCHANGED <<exId, exSet, exRaised, exOverlap, cacheVars>>

\* extract_info from the await to the return.  fetched is what
\* ydl.extract_info gave: "info", "none" or "raise"; outcome is that of the
\* save inside MetadataCache.set
ExtractInfoResume(t, fetched, video_info, outcome) ==
    /\ exTask[t] = "fetching"
    /\ exTask' = [exTask EXCEPT ![t] = "done"]
    /\ UNCHANGED exId
    /\ IF fetched = "info" /\ exId[t] # NoId
          THEN /\ CacheSet(exId[t], video_info, outcome)
               /\ exResult' = [exResult EXCEPT ![t] =
                                   IF outcome = "saved" THEN video_info ELSE NoVideo]
               /\ exSet' = IF outcome = "saved"
                              THEN [k \in DOMAIN exSet \cup {exId[t]} |->
                                       IF k = exId[t] THEN video_info ELSE exSet[k]]
                              ELSE exSet
               /\ exRaised' = (exRaised \/ outcome # "saved")
               /\ exOverlap' = (exOverlap \/
                                  \E o \in ExTasks \ {t} : exTask[o] = "fetching")
          ELSE /\ exResult' = [exResult EXCEPT ![t] =
                                   IF fetched = "info" THEN video_info ELSE NoVideo]
               /\ UNCHANGED <<exSet, exRaised, exOverlap, cacheVars>>

(***************************************************************************)
(* download_video_threaded of yt-dlp_downloader.py: the retry loop around  *)
(* one video (download_video has the same loop).  An attempt ends with a   *)
(* return, with a nonzero result of ydl.download, or with an exception     *)
(* that handle_errors classifies by its message.                           *)
(***************************************************************************)
\* retries=3
retries == 3

VARIABLES
    rtAttempt,  \* attempt, the loop counter
    rtPc,       \* "idle", "running" (inside the loop), "returned"
    rtResult,   \* the success flag returned: "none", "true", "false"
    rtLog       \* history: how each attempt made so far ended

retryVars == <<rtAttempt, rtPc, rtResult, rtLog>>

\* messages of the exceptions an attempt can raise; "other" is any message
\* handle_errors has no case for
ErrorMessages ==
    {"ffmpeg", "getaddrinfo failed", "HTTP Error 403", "HTTP Error 404",
     "Failed to extract", "other"}

\* ways an attempt ends without an exception
PlainOutcomes ==
    {"no_info", "no_formats", "already_exists", "result_zero", "result_nonzero"}

\* handle_errors(e, attempt, retries): TRUE asks for another attempt
handle_errors(msg, attempt_no) ==
    IF msg = "ffmpeg" THEN FALSE ELSE attempt_no <= retries

RetryInit ==
    /\ rtAttempt = 1
    /\ rtPc = "idle"
    /\ rtResult = "none"
    /\ rtLog = <<>>

\* download_video_threaded(url) is called: attempt = 1
RetryCall ==
    /\ rtPc = "idle"
    /\ rtPc' = "running"
    /\ UNCHANGED <<rtAttempt, rtResult, rtLog>>

\* a loop condition that never fails
LoopsOn(attempt_no) == TRUE

\* `while attempt <= retries`
WithinBudget(attempt_no) == attempt_no <= retries

\* one round of `while attempt <= retries`
Attempt(outcome) ==
    LET again == IF outcome \in ErrorMessages
                 THEN handle_errors(outcome, rtAttempt)
                 ELSE outcome = "result_nonzero"
    IN  /\ rtPc = "running"
        /\ WithinBudget(rtAttempt)
        /\ rtLog' = Append(rtLog, outcome)
        /\ IF outcome \in {"already_exists", "result_zero"}
           THEN /\ rtPc' = "returned"
                /\ rtResult' = "true"
                /\ UNCHANGED rtAttempt
           ELSE IF outcome \in {"no_info", "no_formats"} \/ ~again
           THEN /\ rtPc' = "returned"
                /\ rtResult' = "false"
                /\ UNCHANGED rtAttempt
           ELSE /\ rtAttempt' = rtAttempt + 1
                /\ rtPc' = IF WithinBudget(rtAttempt + 1) THEN "running" ELSE "returned"
                /\ rtResult' = IF WithinBudget(rtAttempt + 1) THEN "none" ELSE "false"

(***************************************************************************)
(* The run of a download queue and its cancellation: start_download,       *)
(* stop_download and download_worker of youtube_downloader_web.py (request *)
(* handlers and the worker are threads) and of youtube_downloader_gui.py   *)
(* (the handlers run in the GUI thread, the worker in its own).  The test  *)
(* of the flag at the top of the loop and the assignment of "Downloading"  *)
(* are one step: an item past the test is in flight.                       *)
(***************************************************************************)
\* items in the download queue
NumItems == 2

\* worker threads that can be alive together
NumWorkers == 2

VARIABLES
    cnImpl,          \* "web" or "gui"
    is_downloading,  \* the run-level flag
    cnItems,         \* item -> status
    cnWorker,        \* worker -> "none", "started", "snapshot", "loop",
                     \*           "inflight", "finally"
    cnPending,       \* worker -> its pending_items, a sequence of items
    cnIdx,           \* worker -> position of its loop in pending_items
    cnStopped        \* history: stop_download was called and start_download
                     \* has not started a run since

cancelVars == <<cnImpl, is_downloading, cnItems, cnWorker, cnPending, cnIdx,
                cnStopped>>

Items == 1..NumItems

Workers == 1..NumWorkers

RECURSIVE PendingFrom(_, _)
\* [item for item in download_queue if item.status == "Pending"], from item i
PendingFrom(items, i) ==
    IF i > NumItems THEN <<>>
    ELSE IF items[i] = "Pending" THEN <<i>> \o PendingFrom(items, i + 1)
    ELSE PendingFrom(items, i + 1)

CancelInit ==
    /\ cnImpl \in {"web", "gui"}
    /\ is_downloading = FALSE
    /\ cnItems \in [Items -> {"Pending", "Completed"}]
    /\ cnWorker = [w \in Workers |-> "none"]
    /\ cnPending = [w \in Workers |-> <<>>]
    /\ cnIdx = [w \in Workers |-> 1]
    /\ cnStopped = FALSE

\* start_download: refused while the flag is set (and, in the GUI, while
\* the download button is disabled or nothing is pending); starts a worker
\* thread, in the GUI after setting the flag
StartDownload(w) ==
    /\ ~is_downloading
    /\ cnWorker[w] = "none"
    /\ cnImpl = "gui" =>
           /\ \A o \in Workers : cnWorker[o] = "none"
           /\ PendingFrom(cnItems, 1) # <<>>
    /\ IF cnImpl = "web"
       THEN /\ cnWorker' = [cnWorker EXCEPT ![w] = "started"]
            /\ UNCHANGED is_downloading
       ELSE /\ cnWorker' = [cnWorker EXCEPT ![w] = "snapshot"]
            /\ is_downloading' = TRUE
    /\ cnStopped' = FALSE
    /\ UNCHANGED <<cnImpl, cnItems, cnPending, cnIdx>>

\* stop_download
StopDownload ==
    /\ cnImpl = "gui" => \E w \in Workers : cnWorker[w] # "none"
    /\ is_downloading' = FALSE
    /\ cnStopped' = TRUE
    /\ UNCHANGED <<cnImpl, cnItems, cnWorker, cnPending, cnIdx>>

\* download_worker of the web front end begins: is_downloading = True
WorkerBegin(w) ==
    /\ cnWorker[w] = "started"
    /\ is_downloading' = TRUE
    /\ cnWorker' = [cnWorker EXCEPT ![w] = "snapshot"]
    /\ UNCHANGED <<cnImpl, cnItems, cnPending, cnIdx, cnStopped>>

\* pending_items is taken; nothing pending: return through finally
WorkerSnapshot(w) ==
    LET pending_items == PendingFrom(cnItems, 1) IN
    /\ cnWorker[w] = "snapshot"
    /\ cnPending' = [cnPending EXCEPT ![w] = pending_items]
    /\ cnIdx' = [cnIdx EXCEPT ![w] = 1]
    /\ cnWorker' = [cnWorker EXCEPT ![w] =
                       IF pending_items = <<>> THEN "finally" ELSE "loop"]
    /\ UNCHANGED <<cnImpl, is_downloading, cnItems, cnStopped>>

\* the top of the loop: the end of pending_items, the break on a cleared
\* flag, or the next item becomes "Downloading" and its download is awaited
WorkerNext(w) ==
    /\ cnWorker[w] = "loop"
    /\ IF cnIdx[w] > Len(cnPending[w]) \/ ~is_downloading
       THEN /\ cnWorker' = [cnWorker EXCEPT ![w] = "finally"]
            /\ UNCHANGED cnItems
       ELSE /\ cnItems' = [cnItems EXCEPT ![cnPending[w][cnIdx[w]]] = "Downloading"]
            /\ cnWorker' = [cnWorker EXCEPT ![w] = "inflight"]
    /\ UNCHANGED <<cnImpl, is_downloading, cnPending, cnIdx, cnStopped>>

\* the download of the item in flight returns
DownloadReturn(w, success) ==
    /\ cnWorker[w] = "inflight"
    /\ cnItems' = [cnItems EXCEPT ![cnPending[w][cnIdx[w]]] =
                      IF success THEN "Completed" ELSE "Failed"]
    /\ cnIdx' = [cnIdx EXCEPT ![w] = @ + 1]
    /\ cnWorker' = [cnWorker EXCEPT ![w] = "loop"]
    /\ UNCHANGED <<cnImpl, is_downloading, cnPending, cnStopped>>

\* finally: is_downloading = False; the thread ends
WorkerExit(w) ==
    /\ cnWorker[w] = "finally"
    /\ is_downloading' = FALSE
    /\ cnWorker' = [cnWorker EXCEPT ![w] = "none"]
    /\ cnPending' = [cnPending EXCEPT ![w] = <<>>]
    /\ cnIdx' = [cnIdx EXCEPT ![w] = 1]
    /\ UNCHANGED <<cnImpl, cnItems, cnStopped>>

(***************************************************************************)
(* URLs on their way to a metadata fetch: clean_youtube_url and the worker *)
(* of load_and_add_urls in youtube_downloader_gui.py, and extract_info of  *)
(* AsyncYoutubeDownloader.  A URL is the record of the parts the patterns   *)
(* of the code look at:                                                    *)
(*   scheme host "/" path, where path "watch" is followed by "?v=<v>" and  *)
(*   "&list=<list>" (vFirst) or by "?list=<list>&v=<v>", "playlist" by     *)
(*   "?list=<list>", "embed" and "v" by "/<v>", "short" is "<v>" itself,   *)
(*   "channel" is "channel/abc" and "other" is "about".                    *)
(***************************************************************************)
VARIABLES
    urlWho,      \* "gui": load_and_add_urls, "core": extract_info
    urlIn,       \* the raw URL
    urlClean,    \* what clean_youtube_url returned (gui)
    urlFetched,  \* the URL handed to ydl.extract_info, NoUrl while none was
    urlRejected, \* the URL was reported invalid
    urlPc        \* "new", "done"

urlVars == <<urlWho, urlIn, urlClean, urlFetched, urlRejected, urlPc>>

\* None, and the empty string
NoUrl == [scheme |-> "", host |-> "", path |-> "", v |-> "", list |-> "",
          vFirst |-> TRUE]

VideoIdStrings == {"", "abc", "dQw4w9WgXcQ", "dQw4w9WgXcQ9"}

\* len(v)
VLen(v) ==
    CASE v = "" -> 0
      [] v = "abc" -> 3
      [] v = "dQw4w9WgXcQ" -> 11
      [] v = "dQw4w9WgXcQ9" -> 12

\* the 11 characters that ([a-zA-Z0-9_-]{11}) captures at the start of v
First11(v) == IF VLen(v) >= 11 THEN "dQw4w9WgXcQ" ELSE ""

RawUrls ==
    {NoUrl} \cup
    [scheme : {"", "https://"},
     host : {"www.youtube.com", "m.youtube.com", "example.com"},
     path : {"watch"}, v : VideoIdStrings, list : {"", "PL1"},
     vFirst : BOOLEAN] \cup
    [scheme : {"", "https://"},
     host : {"www.youtube.com", "m.youtube.com", "example.com"},
     path : {"playlist"}, v : {""}, list : {"", "PL1"}, vFirst : {TRUE}] \cup
    [scheme : {"", "https://"},
     host : {"www.youtube.com", "m.youtube.com", "example.com"},
     path : {"embed", "v"}, v : VideoIdStrings, list : {""}, vFirst : {TRUE}] \cup
    [scheme : {"", "https://"}, host : {"youtu.be"},
     path : {"short"}, v : VideoIdStrings, list : {""}, vFirst : {TRUE}] \cup
    [scheme : {"", "https://"},
     host : {"www.youtube.com", "m.youtube.com", "example.com"},
     path : {"channel", "other"}, v : {""}, list : {""}, vFirst : {TRUE}]

\* the text starts with (?:https?://)?(?:www\.)?youtube\.com/
AtYoutube(u) == u.host = "www.youtube.com"

\* the text contains youtube\.com/
OnYoutube(u) == u.host \in {"www.youtube.com", "m.youtube.com"}

\* any(re.match(pattern, url) for pattern in self.youtube_patterns)
is_valid_youtube_url(u) ==
    \/ AtYoutube(u) /\ u.path = "watch" /\ u.vFirst /\ VLen(u.v) >= 1
    \/ AtYoutube(u) /\ u.path = "playlist" /\ u.list # ""
    \/ u.host = "youtu.be" /\ u.path = "short" /\ VLen(u.v) >= 1
    \/ AtYoutube(u) /\ u.path = "channel"

\* the first match of video_id_patterns, "" when there is none
VideoIdIn(u) ==
    IF \/ OnYoutube(u) /\ u.path = "watch" /\ u.vFirst
       \/ u.host = "youtu.be" /\ u.path = "short"
       \/ OnYoutube(u) /\ u.path \in {"embed", "v"}
    THEN First11(u.v) ELSE ""

\* the first match of playlist_patterns, "" when there is none
PlaylistIdIn(u) ==
    IF OnYoutube(u) /\ u.path \in {"playlist", "watch"} THEN u.list ELSE ""

\* f"https://www.youtube.com/watch?v={video_id}"
WatchUrl(video_id) ==
    [scheme |-> "https://", host |-> "www.youtube.com", path |-> "watch",
     v |-> video_id, list |-> "", vFirst |-> TRUE]

\* f"https://www.youtube.com/playlist?list={playlist_id}"
PlaylistUrl(playlist_id) ==
    [scheme |-> "https://", host |-> "www.youtube.com", path |-> "playlist",
     v |-> "", list |-> playlist_id, vFirst |-> TRUE]

\* YouTubeDownloaderGUI.clean_youtube_url
clean_youtube_url(u) ==
    IF u = NoUrl THEN NoUrl
    ELSE IF is_valid_youtube_url(u) THEN u
    ELSE IF VideoIdIn(u) # "" THEN WatchUrl(VideoIdIn(u))
    ELSE IF PlaylistIdIn(u) # "" THEN PlaylistUrl(PlaylistIdIn(u))
    ELSE NoUrl

UrlInit ==
    /\ urlWho \in {"gui", "core"}
    /\ urlIn \in RawUrls
    /\ urlClean = NoUrl
    /\ urlFetched = NoUrl
    /\ urlRejected = FALSE
    /\ urlPc = "new"

\* one round of the loop of load_and_add_urls: the URL is cleaned, and
\* reported invalid or handed to ydl.extract_info
LoadAndAddUrl ==
    LET clean_url == clean_youtube_url(urlIn) IN
    /\ urlWho = "gui"
    /\ urlPc = "new"
    /\ urlClean' = clean_url
    /\ urlRejected' = (clean_url = NoUrl)
    /\ urlFetched' = clean_url
    /\ urlPc' = "done"
    /\ UNCHANGED <<urlWho, urlIn>>

\* extract_info(url) for a URL that is not empty, on an empty cache: the
\* id found in the URL is only the cache key, and with or without one the
\* URL goes to ydl.extract_info as it came
ExtractInfoUrl ==
    /\ urlWho = "core"
    /\ urlPc = "new"
    /\ urlIn # NoUrl
    /\ urlFetched' = urlIn
    /\ urlRejected' = FALSE
    /\ urlPc' = "done"
    /\ UNCHANGED <<urlWho, urlIn, urlClean>>

(***************************************************************************)
(* The segment requests of one chunked transfer on the session's           *)
(* connector.  asyncio.gather starts download_chunk for every unsatisfied  *)
(* segment; each one waits in session.get for a connection, transfers,     *)
(* and gives the connection back (force_close).                            *)
(***************************************************************************)
\* most unsatisfied segments of one transfer
MaxSegments == 102

\* TCPConnector(limit=100)
limit == 100

VARIABLES
    fanSegs,     \* number of download_chunk coroutines gathered
    fanWaiting,  \* of these, waiting for a connection
    fanActive,   \* holding a connection: request sent, body streaming
    fanDone      \* returned

fanVars == <<fanSegs, fanWaiting, fanActive, fanDone>>

\* the connector hands out a connection whatever the number in use
ConnAvailableAlways(active) == TRUE

\* the connector hands out a connection while fewer than `limit` are in use
ConnAvailable(active) == active < limit

FanInit ==
    /\ fanSegs \in 1..MaxSegments
    /\ fanWaiting = fanSegs
    /\ fanActive = 0
    /\ fanDone = 0

\* session.get(...) obtains its connection
ChunkConnect ==
    /\ fanWaiting > 0
    /\ ConnAvailable(fanActive)
    /\ fanWaiting' = fanWaiting - 1
    /\ fanActive' = fanActive + 1
    /\ UNCHANGED <<fanSegs, fanDone>>

\* download_chunk returns True or False; the connection is closed
ChunkReturn ==
    /\ fanActive > 0
    /\ fanActive' = fanActive - 1
    /\ fanDone' = fanDone + 1
    /\ UNCHANGED <<fanSegs, fanWaiting>>

(***************************************************************************)
(* Specifications.  Each one runs one component and leaves the others in   *)
(* a fixed idle state.                                                     *)
(***************************************************************************)
\* the variables of the components added to the downloaders, the chunked
\* transfer and the segment computation
pureVars == <<selVars, sanVars, dupVars, cacheVars, fanVars>>

\* the components added for extract_info
lateVars == <<exVars, retryVars, cancelVars, urlVars>>

vars == <<batchVars, dlVars, partVars, pureVars, lateVars>>

BatchIdle ==
    /\ impl = "async"
    /\ max_concurrent = 1
    /\ urls = <<>>
    /\ download_dir = {}
    /\ downloaded_ids = {}
    /\ semaphore = 1
    /\ stats = [total |-> 0, completed |-> 0, failed |-> 0, skipped |-> 0,
                bytes |-> 0]
    /\ pcBatch = "unused"
    /\ task = <<>>
    /\ info = <<>>
    /\ backend = <<>>
    /\ result = <<>>
    /\ results = <<>>

DlIdle ==
    /\ chunk_size = 1
    /\ source = <<>>
    /\ temp_dir = FALSE
    /\ chunk_files = [i \in ChunkIdx |-> Absent]
    /\ output_file = Absent
    /\ callback = "none"
    /\ pcDl = "unused"
    /\ attempt = 0
    /\ path = "none"
    /\ chunks = <<>>
    /\ tasks = <<>>
    /\ seg = [i \in ChunkIdx |-> "none"]
    /\ gets = [i \in ChunkIdx |-> 0]
    /\ mergeIdx = 0
    /\ dlResult = "none"
    /\ filesAtStart = [i \in ChunkIdx |-> Absent]
    /\ mergeStarted = FALSE
    /\ everComplete = {}
    /\ probe = NoProbe

PartIdle ==
    /\ partIn = <<1, 1>>
    /\ partOut = <<>>
    /\ partDone = TRUE

SelIdle ==
    /\ selFormats = <<>>
    /\ selMaxHeight = max_height
    /\ selBest = NoFormat
    /\ selOptimal = NoFormat
    /\ selDone = TRUE

SanIdle ==
    /\ sanIn = <<>>
    /\ sanOut = <<>>
    /\ sanAgain = <<>>
    /\ sanStep = 2

DupIdle ==
    /\ dupMarked = {}
    /\ dupAsked = NotAsked

CacheIdle ==
    /\ memory_cache = EmptyMap
    /\ cache_file = NoFile
    /\ cacheLast = NoSet

FanIdle ==
    /\ fanSegs = 0
    /\ fanWaiting = 0
    /\ fanActive = 0
    /\ fanDone = 0

PureIdle == SelIdle /\ SanIdle /\ DupIdle /\ CacheIdle /\ FanIdle

ExIdle ==
    /\ exTask = [t \in ExTasks |-> "done"]
    /\ exId = [t \in ExTasks |-> NoId]
    /\ exResult = [t \in ExTasks |-> NoVideo]
    /\ exSet = EmptyMap
    /\ exRaised = FALSE
    /\ exOverlap = FALSE

RetryIdle ==
    /\ rtAttempt = 1
    /\ rtPc = "returned"
    /\ rtResult = "none"
    /\ rtLog = <<>>

CancelIdle ==
    /\ cnImpl = "web"
    /\ is_downloading = FALSE
    /\ cnItems = [i \in Items |-> "Completed"]
    /\ cnWorker = [w \in Workers |-> "none"]
    /\ cnPending = [w \in Workers |-> <<>>]
    /\ cnIdx = [w \in Workers |-> 1]
    /\ cnStopped = FALSE

UrlIdle ==
    /\ urlWho = "gui"
    /\ urlIn = NoUrl
    /\ urlClean = NoUrl
    /\ urlFetched = NoUrl
    /\ urlRejected = FALSE
    /\ urlPc = "done"

LateIdle == ExIdle /\ RetryIdle /\ CancelIdle /\ UrlIdle

\* the downloaders and download_batch
Init == BatchInit /\ DlIdle /\ PartIdle /\ PureIdle /\ LateIdle

Next ==
    \/ DownloadBatch /\ UNCHANGED <<dlVars, partVars, pureVars, lateVars>>
    \/ (\E u \in Urls : \E ok \in BOOLEAN : ExtractInfoDone(u, ok))
            /\ UNCHANGED <<dlVars, partVars, pureVars, lateVars>>
    \/ StartDownloads /\ UNCHANGED <<dlVars, partVars, pureVars, lateVars>>
    \/ BatchFinish /\ UNCHANGED <<dlVars, partVars, pureVars, lateVars>>
    \/ (\E u \in Urls : DirectCall(u)) /\ UNCHANGED <<dlVars, partVars, pureVars, lateVars>>
    \/ (\E u \in Urls : TaskStart(u)) /\ UNCHANGED <<dlVars, partVars, pureVars, lateVars>>
    \/ (\E u \in Urls : \E outcome \in {"info", "none", "raise"} :
            ExtractReturn(u, outcome)) /\ UNCHANGED <<dlVars, partVars, pureVars, lateVars>>
    \/ (\E u \in Urls : \E outcome \in {"zero", "nonzero", "raise"} :
            BackendReturn(u, outcome)) /\ UNCHANGED <<dlVars, partVars, pureVars, lateVars>>
    \/ (\E u \in Urls : TaskResume(u)) /\ UNCHANGED <<dlVars, partVars, pureVars, lateVars>>

Spec == Init /\ [][Next]_vars

\* what happens without the caller once download_batch or a per-video call
\* is under way: the event loop runs a task that is ready (a gather or
\* as_completed whose awaited tasks have settled, a call whose permit is
\* free), and a call handed to the thread pool returns
Scheduled ==
    /\ \/ \E u \in Urls : \E ok \in BOOLEAN : ExtractInfoDone(u, ok)
       \/ StartDownloads
       \/ BatchFinish
       \/ \E u \in Urls : TaskStart(u)
       \/ \E u \in Urls : \E outcome \in {"info", "none", "raise"} :
              ExtractReturn(u, outcome)
       \/ \E u \in Urls : \E outcome \in {"zero", "nonzero", "raise"} :
              BackendReturn(u, outcome)
       \/ \E u \in Urls : TaskResume(u)
    /\ UNCHANGED <<dlVars, partVars, pureVars, lateVars>>

\* download_batch over an empty directory, with URLs of a video that has
\* formats and of one that has none
InitFair ==
    /\ Init
    /\ download_dir = {}
    /\ \A u \in Urls : urls[u].video_id \in { <<"x", "1">>, <<"x", "3">> }

NextFair ==
    \/ DownloadBatch /\ UNCHANGED <<dlVars, partVars, pureVars, lateVars>>
    \/ Scheduled

\* download_batch under a fair event loop, every backend call returning
SpecFair == InitFair /\ [][NextFair]_vars /\ WF_vars(Scheduled)

\* ChunkedDownloader.download_with_resume
InitChunked == BatchIdle /\ DlInit /\ PartIdle /\ PureIdle /\ LateIdle

NextChunked ==
    \/ (\E cb \in {"none", "given"} : DlStart(cb))
            /\ UNCHANGED <<batchVars, partVars, pureVars, lateVars>>
    \/ ProbeRaise /\ UNCHANGED <<batchVars, partVars, pureVars, lateVars>>
    \/ (\E size \in {0, Len(source)} : \E sr, cbRaises \in BOOLEAN :
            ProbeReturn(size, sr, cbRaises)) /\ UNCHANGED <<batchVars, partVars, pureVars, lateVars>>
    \/ (\E i \in ChunkIdx : \E status \in Statuses : \E n \in StreamLengths(i) :
            DownloadChunk(i, status, n)) /\ UNCHANGED <<batchVars, partVars, pureVars, lateVars>>
    \/ (\E cbRaises \in BOOLEAN : AfterGather(cbRaises))
            /\ UNCHANGED <<batchVars, partVars, pureVars, lateVars>>
    \/ MergeOpen /\ UNCHANGED <<batchVars, partVars, pureVars, lateVars>>
    \/ MergeStep /\ UNCHANGED <<batchVars, partVars, pureVars, lateVars>>
    \/ MergeFinish /\ UNCHANGED <<batchVars, partVars, pureVars, lateVars>>
    \/ (\E status \in Statuses : \E n \in 0..Len(source) : \E cbRaises \in BOOLEAN :
            SimpleDownload(status, n, cbRaises)) /\ UNCHANGED <<batchVars, partVars, pureVars, lateVars>>

SpecChunked == InitChunked /\ [][NextChunked]_vars

\* the segment computation
InitPartition == BatchIdle /\ DlIdle /\ PartInit /\ PureIdle /\ LateIdle

NextPartition == Partition /\ UNCHANGED <<batchVars, dlVars, pureVars, lateVars>>

SpecPartition == InitPartition /\ [][NextPartition]_vars

\* the format selectors
InitSelect ==
    BatchIdle /\ DlIdle /\ PartIdle /\ SelInit /\ SanIdle /\ DupIdle /\ CacheIdle
        /\ FanIdle
        /\ LateIdle

NextSelect ==
    SelectFormat
        /\ UNCHANGED <<lateVars, batchVars, dlVars, partVars, sanVars, dupVars, cacheVars,
                       fanVars>>

SpecSelect == InitSelect /\ [][NextSelect]_vars

\* the filename sanitizer
InitSanitize ==
    BatchIdle /\ DlIdle /\ PartIdle /\ SelIdle /\ SanInit /\ DupIdle /\ CacheIdle
        /\ FanIdle
        /\ LateIdle

NextSanitize ==
    \/ Sanitize
            /\ UNCHANGED <<lateVars, batchVars, dlVars, partVars, selVars, dupVars,
                           cacheVars, fanVars>>
    \/ SanitizeAgain
            /\ UNCHANGED <<lateVars, batchVars, dlVars, partVars, selVars, dupVars,
                           cacheVars, fanVars>>

SpecSanitize == InitSanitize /\ [][NextSanitize]_vars

\* DuplicateChecker: the downloader's other variables stay idle
InitDup ==
    /\ impl = "async"
    /\ max_concurrent = 1
    /\ urls = <<>>
    /\ semaphore = 1
    /\ stats = [total |-> 0, completed |-> 0, failed |-> 0, skipped |-> 0,
                bytes |-> 0]
    /\ pcBatch = "unused"
    /\ task = <<>>
    /\ info = <<>>
    /\ backend = <<>>
    /\ result = <<>>
    /\ results = <<>>
    /\ DupInit
    /\ DlIdle /\ PartIdle /\ SelIdle /\ SanIdle /\ CacheIdle /\ FanIdle
    /\ LateIdle

dupFrame == <<impl, max_concurrent, urls, semaphore, stats, pcBatch, task, info,
              backend, result, results, dlVars, partVars, selVars, sanVars,
              cacheVars, fanVars, lateVars>>

NextDup ==
    \/ (\E video_id \in DupIds : \E title \in DupTitles :
            MarkDownloaded(video_id, title)) /\ UNCHANGED dupFrame
    \/ (\E video_id \in DupIds : \E title \in DupTitles :
            IsDownloaded(video_id, title)) /\ UNCHANGED dupFrame
    \/ (\E f \in download_dir : FileRemoved(f)) /\ UNCHANGED dupFrame

SpecDup == InitDup /\ [][NextDup]_vars

\* MetadataCache
InitCache ==
    BatchIdle /\ DlIdle /\ PartIdle /\ SelIdle /\ SanIdle /\ DupIdle /\ CacheInit
        /\ FanIdle
        /\ LateIdle

NextCache ==
    \/ (\E video_id \in CacheIds : \E video_info \in Videos :
         \E outcome \in {"saved", "open_raised", "dump_raised"} :
            CacheSet(video_id, video_info, outcome))
            /\ UNCHANGED <<lateVars, batchVars, dlVars, partVars, selVars, sanVars,
                           dupVars, fanVars>>
    \/ CacheReload
            /\ UNCHANGED <<lateVars, batchVars, dlVars, partVars, selVars, sanVars,
                           dupVars, fanVars>>

SpecCache == InitCache /\ [][NextCache]_vars

\* the segment requests of one transfer
InitFanout ==
    BatchIdle /\ DlIdle /\ PartIdle /\ SelIdle /\ SanIdle /\ DupIdle /\ CacheIdle
        /\ FanInit
        /\ LateIdle

NextFanout ==
    \/ ChunkConnect
            /\ UNCHANGED <<lateVars, batchVars, dlVars, partVars, selVars, sanVars,
                           dupVars, cacheVars>>
    \/ ChunkReturn
            /\ UNCHANGED <<lateVars, batchVars, dlVars, partVars, selVars, sanVars,
                           dupVars, cacheVars>>

SpecFanout == InitFanout /\ [][NextFanout]_vars

\* extract_info tasks of one event loop over one MetadataCache
InitExtract ==
    BatchIdle /\ DlIdle /\ PartIdle /\ SelIdle /\ SanIdle /\ DupIdle /\ CacheInit
        /\ FanIdle /\ ExInit /\ RetryIdle /\ CancelIdle /\ UrlIdle

exFrame == <<batchVars, dlVars, partVars, selVars, sanVars, dupVars, fanVars,
             retryVars, cancelVars, urlVars>>

NextExtract ==
    \/ (\E t \in ExTasks : ExtractInfoStart(t)) /\ UNCHANGED exFrame
    \/ (\E t \in ExTasks : \E fetched \in {"info", "none", "raise"} :
         \E video_info \in Videos :
         \E outcome \in {"saved", "open_raised", "dump_raised"} :
            ExtractInfoResume(t, fetched, video_info, outcome))
            /\ UNCHANGED exFrame

SpecExtract == InitExtract /\ [][NextExtract]_vars

\* the retry loop of download_video_threaded
InitRetry ==
    BatchIdle /\ DlIdle /\ PartIdle /\ PureIdle /\ ExIdle /\ RetryInit
        /\ CancelIdle /\ UrlIdle

retryFrame == <<batchVars, dlVars, partVars, pureVars, exVars, cancelVars,
                urlVars>>

NextRetry ==
    \/ RetryCall /\ UNCHANGED retryFrame
    \/ (\E outcome \in ErrorMessages \cup PlainOutcomes : Attempt(outcome))
            /\ UNCHANGED retryFrame

SpecRetry == InitRetry /\ [][NextRetry]_vars

\* a download queue run with start and stop requests
InitCancel ==
    BatchIdle /\ DlIdle /\ PartIdle /\ PureIdle /\ ExIdle /\ RetryIdle
        /\ CancelInit /\ UrlIdle

cancelFrame == <<batchVars, dlVars, partVars, pureVars, exVars, retryVars,
                 urlVars>>

NextCancel ==
    \/ (\E w \in Workers : StartDownload(w)) /\ UNCHANGED cancelFrame
    \/ StopDownload /\ UNCHANGED cancelFrame
    \/ (\E w \in Workers : WorkerBegin(w)) /\ UNCHANGED cancelFrame
    \/ (\E w \in Workers : WorkerSnapshot(w)) /\ UNCHANGED cancelFrame
    \/ (\E w \in Workers : WorkerNext(w)) /\ UNCHANGED cancelFrame
    \/ (\E w \in Workers : \E success \in BOOLEAN : DownloadReturn(w, success))
            /\ UNCHANGED cancelFrame
    \/ (\E w \in Workers : WorkerExit(w)) /\ UNCHANGED cancelFrame

SpecCancel == InitCancel /\ [][NextCancel]_vars

\* one URL given to the GUI's loader or to extract_info
InitUrl ==
    BatchIdle /\ DlIdle /\ PartIdle /\ PureIdle /\ ExIdle /\ RetryIdle
        /\ CancelIdle /\ UrlInit

urlFrame == <<batchVars, dlVars, partVars, pureVars, exVars, retryVars,
              cancelVars>>

NextUrl ==
    \/ LoadAndAddUrl /\ UNCHANGED urlFrame
    \/ ExtractInfoUrl /\ UNCHANGED urlFrame

SpecUrl == InitUrl /\ [][NextUrl]_vars

(***************************************************************************)
(* Properties.                                                             *)
(***************************************************************************)
\* per-video calls that hold a permit
HoldingCount == Cardinality({ u \in Urls : task[u] \in Holding })

FailResults == {"dropped", "extract_failed", "no_format", "download_failed", "error"}

\* the video is already present: its id or sanitized title is in the
\* Duplicate Index, or a file <sanitized title>.<media extension> exists
Present(v) ==
    \/ v.video_id \in downloaded_ids
    \/ _sanitize_filename(v.title) \in downloaded_ids
    \/ \E ext \in MediaExts : <<_sanitize_filename(v.title), ext>> \in download_dir

\* C1: at no moment do more than max_concurrent per-video calls hold a permit.
C1_ConcurrencyBound == HoldingCount <= max_concurrent

\* C1 witness: the pool is exhausted while another call waits for a permit.
C1_Witness ==
    /\ HoldingCount = max_concurrent
    /\ \E u \in Urls : task[u] = "created"

\* C2: once download_batch has finished, completed + failed + skipped = total
\* = len(urls).
C2_StatsSumToTotal ==
    pcBatch = "done" =>
        /\ stats.total = Len(urls)
        /\ stats.completed + stats.failed + stats.skipped = stats.total

\* C3: a per-video call that reaches the duplicate check with its video
\* already present ends Skipped in that step: no transfer is started, skipped
\* grows by one, completed and failed stay, the call returns success.
C3_PresentVideoIsSkipped ==
    [][\A u \in Urls :
          ( /\ Present(urls[u])
            /\ \/ info[u] /\ TaskStart(u)
               \/ ExtractReturn(u, "info") )
          => /\ task'[u] = "done"
             /\ result'[u] = "skipped"
             /\ stats' = [stats EXCEPT !.skipped = @ + 1]
       ]_vars

\* C4: a failing task never aborts download_batch: when the batch has
\* finished every URL has reached its terminal state, every failure is
\* recorded as that task's failed result and counted in stats.failed.
C4_FailuresCaptured ==
    pcBatch = "done" =>
        /\ \A u \in Urls : task[u] \in {"done", "dropped"}
        /\ \A u \in Urls : result[u] \in FailResults \cup SuccessResults
        /\ stats.failed = Cardinality({ u \in Urls : result[u] \in FailResults })

\* segments whose file was complete when the invocation began
SatisfiedAtStart == { i \in ChunkIdx : filesAtStart[i].exists }

\* C5: a re-invocation that finds segments complete on disk issues ranged
\* GETs only for the other segments, and when it succeeds the artifact is
\* the one an uninterrupted run produces: the source file.
C5_ResumeFetchesOnlyMissing ==
    (pcDl = "returned" /\ path = "chunked" /\ attempt >= 2
        /\ SatisfiedAtStart # {}) =>
        /\ \A i \in SatisfiedAtStart : gets[i] = 0
        /\ \A i \in ChunkIdx : gets[i] <= 1
        /\ dlResult = "true" => output_file = File(source)

\* C6: when download_with_resume returns success on the chunked path, the
\* artifact is byte-identical to the source file.
C6_MergedArtifactIsSource ==
    (pcDl = "returned" /\ path = "chunked" /\ dlResult = "true") =>
        /\ output_file.exists
        /\ Len(output_file.data) = Len(source)
        /\ output_file.data = source

\* C7: when a segment transfer of the chunked path has failed,
\* download_with_resume returns False and never opens the output for a merge.
C7_SegmentFailureReturnsFalse ==
    (pcDl = "returned" /\ path = "chunked"
        /\ \E i \in ChunkIdx : seg[i] = "failed") =>
        /\ dlResult = "false"
        /\ ~mergeStarted

\* C8: when a chunked transfer has failed, every segment file that was
\* complete before or during the attempt is on disk with its full length,
\* and one that was complete before the attempt is untouched.
C8_CompleteSegmentsKept ==
    (pcDl = "returned" /\ path = "chunked" /\ dlResult # "true") =>
        /\ temp_dir
        /\ \A i \in everComplete :
              /\ FullLength(chunk_files[i], chunks[i + 1])
              /\ filesAtStart[i].exists => chunk_files[i] = filesAtStart[i]

\* C8 witness: a failed attempt with a segment kept from the attempt before
\* and a segment completed during the failed attempt.
C8_Witness ==
    /\ pcDl = "returned" /\ path = "chunked" /\ dlResult = "false"
    /\ \E i \in everComplete : filesAtStart[i].exists
    /\ \E j \in everComplete : seg[j] = "ok"
    /\ \E k \in ChunkIdx : seg[k] = "failed"

\* C9: the segments partition [0, total_size): they start at 0, end at
\* total_size - 1, are contiguous, number ceil(total_size / chunk_size), and
\* each has length chunk_size except the last, which is not longer; 25 MiB
\* in 10 MiB chunks gives 10, 10 and 5 MiB.
C9_SegmentsPartition ==
    partDone =>
        LET total == partIn[1]
            size == partIn[2]
            n == Len(partOut)
        IN  /\ n = (total + size - 1) \div size
            /\ partOut[1].start = 0
            /\ partOut[n].end = total - 1
            /\ \A k \in 1..(n - 1) :
                  /\ partOut[k + 1].start = partOut[k].end + 1
                  /\ ChunkLen(partOut[k]) = size
            /\ ChunkLen(partOut[n]) >= 1
            /\ ChunkLen(partOut[n]) <= size
            /\ partIn = <<25 * 1024 * 1024, DefaultChunkSize>> =>
                  [k \in 1..n |-> ChunkLen(partOut[k])]
                     = <<DefaultChunkSize, DefaultChunkSize, 5 * 1024 * 1024>>

\* C9 witness: the 25 MiB file has been cut into its three segments.
C9_Witness ==
    /\ partDone
    /\ partIn = <<25 * 1024 * 1024, DefaultChunkSize>>
    /\ Len(partOut) = 3

\* C10: whenever no per-video call is in flight, every permit is back.
C10_PermitsReleased ==
    /\ semaphore = max_concurrent - HoldingCount
    /\ HoldingCount = 0 => semaphore = max_concurrent

\* C10 witness: every call has returned, one by a raised exception, one after
\* a transfer the backend reported as failed or finished.
C10_Witness ==
    /\ Urls # {}
    /\ \A u \in Urls : task[u] = "done"
    /\ \E u \in Urls : result[u] = "error"
    /\ \E u \in Urls : result[u] \in {"download_failed", "completed", "skipped"}

\* the format carries a video stream
HasVideo(f) == f.vcodec # "none"

\* the format carries an audio stream
HasAudio(f) == f.acodec # "none"

\* C11: each selector returns a format of the list that has a video codec, or
\* no format; it returns no format exactly when no format of the list has a
\* video codec.
C11_SelectorReturnsVideoOrNothing ==
    selDone =>
        \A out \in {selBest, selOptimal} :
            /\ out # NoFormat =>
                  /\ HasVideo(out)
                  /\ \E i \in 1..Len(selFormats) : selFormats[i] = out
            /\ out = NoFormat <=>
                  \A i \in 1..Len(selFormats) : ~HasVideo(selFormats[i])

\* the video-capable formats of the list, in list order
VideoCapable == SelectSeq(selFormats, HasVideo)

\* the score as the specification writes it, missing values being 0
SpecScore(f) ==
    (IF f.height < selMaxHeight THEN f.height ELSE selMaxHeight) * f.fps
        + f.tbr
        + (IF HasAudio(f) THEN 1000 ELSE 0)
        + (IF f.ext = "mp4" THEN 500 ELSE 0)

Preferred ==
    SelectSeq(selFormats,
              LAMBDA f : HasVideo(f) /\ HasAudio(f) /\ f.ext \in {"mp4", "webm"})

Candidates == IF Preferred # <<>> THEN Preferred ELSE VideoCapable

\* the score with a missing fps read as 30 and the bitrate taken from tbr,
\* or from vbr when tbr is missing
ScoreWithDefaults(f) ==
    (IF f.height < selMaxHeight THEN f.height ELSE selMaxHeight)
            * (IF f.fps = 0 THEN 30 ELSE f.fps)
        + (IF f.tbr # 0 THEN f.tbr ELSE f.vbr)
        + (IF HasAudio(f) THEN 1000 ELSE 0)
        + (IF f.ext = "mp4" THEN 500 ELSE 0)

C13_AudioCarryingPreferred ==
    (selDone /\ \E i \in 1..Len(selFormats) :
                    HasVideo(selFormats[i]) /\ HasAudio(selFormats[i]))
        => HasAudio(selOptimal)

\* C14: sanitizing a sanitized name changes nothing.
C14_SanitizeIdempotent == sanStep = 2 => sanAgain = sanOut

\* C14 witness: a name from which characters were dropped and spaces were
\* stripped at an end, with something left, has been sanitized twice.
C14_Witness ==
    /\ sanStep = 2
    /\ KeepChars(sanIn) # sanIn
    /\ KeepChars(sanIn) # sanOut
    /\ sanOut # <<>>

\* C15: is_downloaded answers true for every id that was marked and for
\* every title whose sanitized form is that of a marked title.
C15_MarkedIsDownloaded ==
    dupAsked.asked =>
        \A m \in dupMarked :
            ( \/ dupAsked.video_id = m[1]
              \/ _sanitize_filename(dupAsked.title) = _sanitize_filename(m[2]) )
                => dupAsked.answer

\* C15 witness: nothing is on disk, and a check under another id and another
\* title with the same sanitized form as a marked title was answered true.
C15_Witness ==
    /\ dupAsked.asked
    /\ dupAsked.answer
    /\ download_dir = {}
    /\ \E m \in dupMarked :
          /\ dupAsked.video_id # m[1]
          /\ dupAsked.title # m[2]
          /\ _sanitize_filename(dupAsked.title) = _sanitize_filename(m[2])
    /\ \A m \in dupMarked : dupAsked.video_id # m[1]

\* C16: once set(id, record) has returned, the file holds the whole
\* in-memory map, get(id) gives the record, and so does a cache loaded from
\* the file.
C16_WriteThrough ==
    cacheLast.returned =>
        /\ cache_file = Pickled(memory_cache)
        /\ get(memory_cache, cacheLast.video_id) = cacheLast.info
        /\ get(_load_cache(cache_file), cacheLast.video_id) = cacheLast.info

\* C16 witness: a set has returned on a cache that holds another id as well.
C16_Witness ==
    /\ cacheLast.returned
    /\ DOMAIN memory_cache = CacheIds
    /\ \E k \in CacheIds : memory_cache[k] # cacheLast.info

\* C17: once the downloads of download_batch are created, failed counts at
\* least the URLs whose extraction failed, and these URLs are dropped.
C17_FailedExtractionsCounted ==
    pcBatch \in {"downloading", "done"} =>
        /\ \A u \in Urls : task[u] = "dropped" <=> result[u] = "dropped"
        /\ stats.failed >= Cardinality({ u \in Urls : result[u] = "dropped" })

\* ThreadPoolExecutor(max_workers=4) of AsyncYoutubeDownloader
max_workers == 4

\* extractions of the pre-fetch that are running: AsyncYoutubeDownloader runs
\* them in its thread pool, OptimizedYoutubeDownloader in the default executor
ExtractionsInFlight ==
    LET started == Cardinality({ u \in Urls : task[u] = "extracting" })
    IN  IF impl = "async" /\ started > max_workers THEN max_workers ELSE started

\* C18: during the pre-fetch, no more than max_concurrent extractions are in
\* flight.
C18_PrefetchWithinPermits ==
    pcBatch = "prefetch" => ExtractionsInFlight <= max_concurrent

\* C19: the segment requests in flight never exceed the connector's limit,
\* however many segments the transfer has.
C19_SegmentsInFlightBounded ==
    /\ fanActive <= limit
    /\ fanWaiting + fanActive + fanDone = fanSegs

\* C19 witness: the transfer has more segments than the limit, the limit is
\* reached and segments wait.
C19_Witness ==
    /\ fanSegs > limit
    /\ fanActive = limit
    /\ fanWaiting > 0

\* per-video calls that ended with the given results
Ended(how) == { u \in Urls : result[u] \in how }

RECURSIVE BytesOf(_)
\* sum of the sizes of the formats of the given completed calls
BytesOf(us) ==
    IF us = {} THEN 0
    ELSE LET u == CHOOSE x \in us : TRUE
         IN  BestFormat(urls[u]).filesize + BytesOf(us \ {u})

\* C20: at every moment each counter equals the number of per-video calls
\* that ended in its outcome, and the byte counter the sizes of the completed
\* ones.
C20_NoLostUpdate ==
    /\ stats.completed = Cardinality(Ended({"completed"}))
    /\ stats.skipped = Cardinality(Ended({"skipped"}))
    /\ stats.failed = Cardinality(Ended(FailResults \ {"dropped"}))
    /\ stats.bytes = BytesOf(Ended({"completed"}))

\* C21: the set calls of extract_info tasks running together do not
\* interleave: as long as no save has raised, the cache file holds a whole
\* map, that map is the in-memory map, and it has every entry a set has
\* stored, with the info of the last set for its video id.
C21_SetsSerialized ==
    ~exRaised =>
        /\ _load_cache(cache_file) = memory_cache
        /\ exSet # EmptyMap => cache_file.state = "pickled"
        /\ \A k \in DOMAIN exSet :
              /\ k \in DOMAIN _load_cache(cache_file)
              /\ _load_cache(cache_file)[k] = exSet[k]

\* two tasks awaited their fetches together and both stored an entry
C21_Witness ==
    /\ \A t \in ExTasks : exTask[t] = "done"
    /\ exOverlap
    /\ ~exRaised
    /\ DOMAIN exSet = CacheIds

\* C22: a progress callback that raises does not fail the transfer: no
\* exception leaves download_with_resume from the first progress report or
\* from the loop over the results of the gather, and a single-stream
\* download that has written the whole body returns True.
C22_CallbackRaiseContained ==
    [][ /\ (pcDl = "probing" /\ path' = "chunked") => dlResult' # "raised"
        /\ pcDl = "gathering" => dlResult' # "raised"
        /\ (pcDl = "simple" /\ pcDl' = "returned" /\ output_file' # output_file
                /\ output_file'.data = source) => dlResult' = "true" ]_vars

\* C23: a chunked call that returns True leaves no segment file and no
\* temporary directory, and a step that deletes a segment file has appended
\* that file's bytes to the output.
C23_SegmentsDeletedAfterMerge ==
    [][ /\ (dlResult' = "true" /\ path' = "chunked") =>
              /\ \A i \in ChunkIdx : ~chunk_files'[i].exists
              /\ ~temp_dir'
        /\ \A i \in ChunkIdx :
              (chunk_files[i].exists /\ ~chunk_files'[i].exists) =>
                  /\ output_file'.exists
                  /\ output_file'.data = output_file.data \o chunk_files[i].data ]_vars

\* a chunked call of at least two segments has merged them and returned True
C23_Witness ==
    /\ pcDl = "returned"
    /\ dlResult = "true"
    /\ path = "chunked"
    /\ Len(chunks) >= 2
    /\ mergeStarted
    /\ ~temp_dir

\* C24: once the probe has reported no range support or a size of 0, the
\* call is on the single-stream path: no ranged GET is issued, no segment
\* file is written or removed, no merge reads one, and what reaches the
\* output is a prefix of the plain response body.
C24_FallbackLeavesSegmentsAlone ==
    [][ (probe' # NoProbe /\ (~probe'.supports_ranges \/ probe'.total_size = 0)) =>
            /\ path' = "simple"
            /\ \A i \in ChunkIdx : gets'[i] = 0
            /\ tasks' = <<>>
            /\ chunk_files' = chunk_files
            /\ ~mergeStarted'
            /\ output_file' # output_file =>
                   \E n \in 0..Len(source) : output_file' = File(Prefix(source, n)) ]_vars

\* a second call falls back with a segment file of the first call on disk
\* and writes the whole body as a single stream
C24_Witness ==
    /\ pcDl = "returned"
    /\ path = "simple"
    /\ dlResult = "true"
    /\ probe.supports_ranges
    /\ probe.total_size = 0
    /\ \E i \in ChunkIdx : chunk_files[i].exists
    /\ \A i \in ChunkIdx : gets[i] = 0
    /\ Len(source) > 0
    /\ output_file.data = source

\* C25: a per-video call whose video is already present is classified as
\* Skipped before any network call is made for it: the step that ends it
\* Skipped does not follow a metadata fetch made for the call, by the
\* pre-fetch of download_batch or awaited inside the call.
C25_SkippedBeforeAnyFetch ==
    [][\A u \in Urls :
          (result[u] # "skipped" /\ result'[u] = "skipped") =>
              /\ ~info[u]
              /\ task[u] # "extract_held"
       ]_vars

\* no format of the video has a video codec
NoVideoFormat(v) == \A k \in 1..Len(v.formats) : ~HasVideo(v.formats[k])

\* C29: a per-video call whose format selection yields no format never starts
\* a transfer and ends failed with the missing format as its reason, adding
\* exactly one to the failed counter; a batch of two URLs whose metadata was
\* fetched, of which one has no video-capable format and the other completes,
\* ends with completed = 1, failed = 1, skipped = 0.
C29_NoFormatCountsAsFailed ==
    [][ /\ \A u \in Urls :
              /\ BestFormat(urls[u]) = NoFormat =>
                     task'[u] \notin {"transferring", "resolved"}
              /\ (result[u] # "no_format" /\ result'[u] = "no_format") =>
                     stats' = [stats EXCEPT !.failed = @ + 1]
        /\ ( /\ pcBatch' = "done"
             /\ Len(urls) = 2
             /\ \E u, w \in Urls :
                    /\ u # w
                    /\ NoVideoFormat(urls[u])
                    /\ result'[u] # "dropped"
                    /\ result'[w] = "completed" ) =>
                /\ stats'.completed = 1
                /\ stats'.failed = 1
                /\ stats'.skipped = 0
      ]_vars

\* the counter a terminal result belongs to
CounterOf(how) ==
    CASE how = "completed" -> "completed"
      [] how = "skipped" -> "skipped"
      [] OTHER -> "failed"

\* C30: a per-video call ends once, in one terminal state; the step that
\* ends it adds one to the counter of that state and leaves the other two
\* counters alone, and the byte counter moves only when the call ends
\* Completed; a transfer starts only from the selection of a format.
C30_OneTerminalStateOneCounter ==
    [][\A u \in Urls :
          /\ task[u] = "done" => (task'[u] = "done" /\ result'[u] = result[u])
          /\ (task[u] # "transferring" /\ task'[u] = "transferring") =>
                 task[u] \in {"created", "extract_held"}
          /\ (task[u] # "done" /\ task'[u] = "done") =>
                 /\ result'[u] \in SuccessResults \cup (FailResults \ {"dropped"})
                 /\ \A c \in {"completed", "failed", "skipped"} :
                        stats'[c] = IF c = CounterOf(result'[u])
                                    THEN stats[c] + 1 ELSE stats[c]
                 /\ stats'.bytes # stats.bytes => result'[u] = "completed"
       ]_vars

\* errors of the transient network class: a failed name lookup and the
\* errors handle_errors has no case for
TransientErrors == {"getaddrinfo failed", "other"}

\* C26: the retrying downloader makes a further attempt only after an attempt
\* that ended with a transient network-class error; after an HTTP 403 or an
\* HTTP 404 error it returns failure without another attempt.
C26_RetryOnlyTransient ==
    [][ rtLog' # rtLog =>
           LET last == rtLog'[Len(rtLog')] IN
           /\ rtPc' = "running" => last \in TransientErrors
           /\ last \in {"HTTP Error 403", "HTTP Error 404"} =>
                  /\ rtPc' = "returned"
                  /\ rtResult' = "false"
                  /\ rtAttempt' = rtAttempt ]_vars

\* C27: once stop_download has cleared the flag, and until start_download
\* starts a run again, no item that is Pending becomes Downloading; an item
\* that is Downloading stays so until it ends Completed or Failed.
C27_NoSubmissionAfterStop ==
    [][\A i \in Items :
          /\ cnStopped => ~(cnItems[i] = "Pending" /\ cnItems'[i] = "Downloading")
          /\ cnItems[i] = "Downloading" =>
                 cnItems'[i] \in {"Downloading", "Completed", "Failed"}
       ]_vars

\* the URL is of the form watch?v=<id> or playlist?list=<id>
StableForm(u) ==
    /\ u.host = "www.youtube.com"
    /\ \/ u.path = "watch" /\ u.vFirst /\ VLen(u.v) = 11 /\ u.list = ""
       \/ u.path = "playlist" /\ u.list # ""

\* the URL names a video or a playlist of YouTube
RecognizedForm(u) ==
    /\ u.host \in {"www.youtube.com", "m.youtube.com", "youtu.be"}
    /\ \/ u.path \in {"watch", "short", "embed", "v"} /\ VLen(u.v) >= 11
       \/ u.path \in {"watch", "playlist"} /\ u.list # ""

\* C28: the URL handed to the metadata fetch is of the stable form
\* watch?v=<id> or playlist?list=<id>, and a raw URL of no recognized form is
\* reported invalid with no metadata fetch made for it.
C28_CanonicalOrRejected ==
    urlPc = "done" =>
        /\ urlFetched # NoUrl => StableForm(urlFetched)
        /\ ~RecognizedForm(urlIn) => (urlRejected /\ urlFetched = NoUrl)


(***************************************************************************)
(* One video submitted twice in a batch                                    *)
(***************************************************************************)
\* the per-video calls whose backend transfer has been started and whose
\* outcome is not yet recorded
Transferring == { u \in Urls : task[u] \in {"transferring", "resolved"} }

\* C31: when one video is submitted twice in a batch, the two tasks never
\* both have a transfer of it under way and never both end Completed: at
\* most one transfers and the other is Skipped.
C31_DuplicateSubmissionTransfersOnce ==
    \A u, w \in Urls :
        (u # w /\ urls[u] = urls[w]) =>
            /\ ~(u \in Transferring /\ w \in Transferring)
            /\ ~(result[u] = "completed" /\ result[w] = "completed")


(***************************************************************************)
(* Order of the merge                                                      *)
(***************************************************************************)
\* C32: the merge opens the output only when every segment is satisfied
\* from disk or its download_chunk has returned True, with none in flight;
\* and round k of the merge appends the file of segment k, the segments
\* below k being consumed already and those from k on still waiting, so the
\* output receives the segments in ascending index, which is ascending
\* offset, whatever order the downloads finished in.
C32_MergeInIndexOrder ==
    [][ /\ (mergeStarted' /\ ~mergeStarted) =>
              /\ \A i \in 0..(Len(chunks) - 1) :
                    seg[i] = "ok" \/ i \in SatisfiedAtStart
              /\ \A i \in ChunkIdx : seg[i] # "inflight"
              /\ output_file' = File(<<>>)
        /\ (pcDl = "merging" /\ output_file' # output_file) =>
              /\ mergeIdx' = mergeIdx + 1
              /\ output_file'.data = output_file.data \o chunk_files[mergeIdx].data
              /\ ~chunk_files'[mergeIdx].exists
              /\ \A j \in 0..(Len(chunks) - 1) :
                    chunk_files[j].exists <=> j >= mergeIdx
              /\ \A j \in 1..(Len(chunks) - 1) :
                    chunks[j].start < chunks[j + 1].start ]_vars

\* two segments were downloaded concurrently; the merge has written segment
\* 0 at offset 0 and segment 1 waits on disk
C32_Witness ==
    /\ pcDl = "merging"
    /\ Len(tasks) >= 2
    /\ mergeIdx = 1
    /\ output_file.data = SubSeq(source, 1, ChunkLen(chunks[1]))
    /\ chunk_files[1].exists
    /\ ~chunk_files[0].exists


(***************************************************************************)
(* Marking on completion                                                   *)
(***************************************************************************)
\* the step is the duplicate check of the per-video call u: the call leaves
\* the check Skipped, without a format, or into its transfer
ChecksDuplicate(u) ==
    /\ task[u] \in {"created", "extract_held"}
    /\ \/ task'[u] = "transferring"
       \/ result'[u] \in {"skipped", "no_format"}

\* w has ended Completed for a video of the same id or sanitized title as u's
CompletedBefore(u, w) ==
    /\ w # u
    /\ result[w] = "completed"
    /\ \/ urls[w].video_id = urls[u].video_id
       \/ _sanitize_filename(urls[w].title) = _sanitize_filename(urls[u].title)

\* C33: in the downloader that keeps a Duplicate Index, the step that ends a
\* task Completed increments the completed counter and puts the video's id
\* and sanitized title in the index, and every task that makes its duplicate
\* check after a task for the same id or sanitized title has ended Completed
\* ends Skipped.
C33_CompletedIsMarkedAtOnce ==
    [][ impl = "async" =>
          \A u \in Urls :
              /\ (result'[u] = "completed" /\ result[u] # "completed") =>
                    /\ stats'.completed = stats.completed + 1
                    /\ urls[u].video_id \in downloaded_ids'
                    /\ _sanitize_filename(urls[u].title) \in downloaded_ids'
              /\ result[u] = "completed" =>
                    /\ urls[u].video_id \in downloaded_ids
                    /\ _sanitize_filename(urls[u].title) \in downloaded_ids
              /\ (ChecksDuplicate(u) /\ \E w \in Urls : CompletedBefore(u, w)) =>
                    result'[u] = "skipped" ]_vars

\* a task has ended Completed and a later task for the same id was Skipped
C33_Witness ==
    /\ impl = "async"
    /\ \E u, w \in Urls :
          /\ u # w
          /\ urls[u].video_id = urls[w].video_id
          /\ result[u] = "completed"
          /\ result[w] = "skipped"
          /\ stats.completed = 1
          /\ stats.skipped = 1


(***************************************************************************)
(* extract_info and the cache                                              *)
(***************************************************************************)
\* C34: extract_info looks the derived id up first.  On a hit it returns the
\* cached record at once, without a live fetch and without touching the
\* cache; on a miss (or with no id) it awaits one live fetch and then
\* returns, never fetching again.  A record it returns after a fetch for a
\* derived id is in the cache under that id, and entries never leave the
\* cache, so the next extract_info for the same URL is a hit.
C34_CacheFirstOneFetch ==
    [][ \A t \in ExTasks :
          /\ (exTask[t] = "new" /\ exTask'[t] # "new") =>
                IF exId[t] # NoId /\ exId[t] \in DOMAIN memory_cache
                THEN /\ exTask'[t] = "done"
                     /\ exResult'[t] = memory_cache[exId[t]]
                     /\ UNCHANGED cacheVars
                ELSE exTask'[t] = "fetching"
          /\ exTask[t] = "fetching" => exTask'[t] \in {"fetching", "done"}
          /\ exTask[t] = "done" =>
                (exTask'[t] = "done" /\ exResult'[t] = exResult[t])
          /\ (exTask[t] = "fetching" /\ exTask'[t] = "done"
                 /\ exResult'[t] # NoVideo /\ exId[t] # NoId) =>
                /\ exId[t] \in DOMAIN memory_cache'
                /\ memory_cache'[exId[t]] = exResult'[t]
          /\ DOMAIN memory_cache \subseteq DOMAIN memory_cache' ]_vars

\* of two calls for one URL whose id was not cached, one has fetched and
\* stored the record and the other, coming after, was answered from the cache
C34_Witness ==
    /\ \A t \in ExTasks : exTask[t] = "done" /\ exResult[t] # NoVideo
    /\ exId[1] = exId[2]
    /\ exId[1] \in DOMAIN exSet
    /\ ~exOverlap
    /\ exResult[1] = memory_cache[exId[1]]
    /\ exResult[2] = memory_cache[exId[1]]


(***************************************************************************)
(* Missing frame rate, and the height ceiling                              *)
(***************************************************************************)
\* the two formats differ at most in their id and their frame rate
SameButFps(f, g) ==
    [f EXCEPT !.fps = 0, !.format_id = ""] = [g EXCEPT !.fps = 0, !.format_id = ""]

\* C35: a video format without an fps value gets nothing from the
\* height*fps term: its score is the score it would have with height 0, in
\* format_score and in quality_score; and neither selector returns it when
\* the list has a format of the same height that declares a positive fps and
\* is otherwise the same.
C35_MissingFpsCountsZero ==
    selDone =>
        \A i \in 1..Len(selFormats) :
            LET f == selFormats[i] IN
            (HasVideo(f) /\ f.fps = 0) =>
                /\ format_score(f, selMaxHeight) =
                       format_score([f EXCEPT !.height = 0], selMaxHeight)
                /\ quality_score(f) = quality_score([f EXCEPT !.height = 0])
                /\ \A j \in 1..Len(selFormats) :
                      LET g == selFormats[j] IN
                      (g.fps > 0 /\ g.height > 0 /\ SameButFps(f, g)) =>
                          (selOptimal # f /\ selBest # f)

\* C36: when the list has a video-capable format whose height is at most
\* max_height, the format _select_optimal_format returns has a height of at
\* most max_height.
C36_CeilingRespected ==
    (selDone /\ \E i \in 1..Len(selFormats) :
                    HasVideo(selFormats[i]) /\ selFormats[i].height <= selMaxHeight) =>
        selOptimal.height <= selMaxHeight


(***************************************************************************)
(* The retry budget                                                        *)
(***************************************************************************)
\* C37: download_video_threaded makes at most `retries` attempts whatever
\* the attempts end with; the attempt counter never decreases, and every
\* attempt either ends the call or advances the counter by one, so the call
\* ends; once the counter is past the budget the call has returned failure.
C37_AttemptsWithinBudget ==
    [][ /\ Len(rtLog') <= retries
        /\ rtAttempt' >= rtAttempt
        /\ rtAttempt' <= retries + 1
        /\ rtLog' # rtLog =>
              /\ Len(rtLog') = Len(rtLog) + 1
              /\ rtPc' = "returned" \/ rtAttempt' = rtAttempt + 1
        /\ rtAttempt' > retries => (rtPc' = "returned" /\ rtResult' = "false")
        /\ Len(rtLog') = retries => rtPc' = "returned" ]_vars

\* a non-zero download result, then errors, have used the budget up: the
\* call has returned failure after `retries` attempts
C37_Witness ==
    /\ rtPc = "returned"
    /\ rtResult = "false"
    /\ Len(rtLog) = retries
    /\ rtAttempt = retries + 1
    /\ rtLog[1] = "result_nonzero"
    /\ rtLog[2] \in ErrorMessages


(***************************************************************************)
(* Termination of download_batch                                           *)
(***************************************************************************)
\* every task of the batch has settled: its per-video call has returned, or
\* its extraction failed and no call was made for it
AllSettled == \A u \in Urls : task[u] \in {"done", "dropped"}

\* C38: under a fair event loop, with every backend call returning, a
\* download_batch that has begun ends with every task settled, whatever the
\* number of URLs and permits; the statistics are printed only when every
\* task has settled, and only once.
C38_BatchTerminates ==
    /\ (pcBatch = "prefetch") ~> (pcBatch = "done" /\ AllSettled)
    /\ [][ /\ (pcBatch' = "done" /\ pcBatch # "done") => AllSettled'
           /\ pcBatch = "done" => (pcBatch' = "done" /\ task' = task) ]_vars

\* a batch of more URLs than permits has ended with every call returned
C38_Witness ==
    /\ pcBatch = "done"
    /\ Len(urls) > max_concurrent
    /\ \A u \in Urls : task[u] = "done"
    /\ Len(results) = Len(urls)


(***************************************************************************)
(* The temporary directory on the single-stream path                       *)
(***************************************************************************)
\* C39: a first call of download_with_resume that has returned on the
\* single-stream path, with success or failure, has left no temporary
\* segment directory and no segment file behind.
C39_FallbackLeavesNoTempDir ==
    (pcDl = "returned" /\ path = "simple" /\ attempt = 1) =>
        /\ ~temp_dir
        /\ \A i \in ChunkIdx : ~chunk_files[i].exists


(***************************************************************************)
(* One worker at a time                                                    *)
(***************************************************************************)
\* the worker threads that have been started and have not ended
ActiveWorkers == { w \in Workers : cnWorker[w] # "none" }

\* C40: at most one download worker is active at any time, and an item a
\* worker picks up is Pending at that moment: no item is taken by a second
\* worker while or after another has it.
C40_OneWorkerAtATime ==
    [][ /\ Cardinality(ActiveWorkers') <= 1
        /\ \A w \in Workers :
              (cnWorker[w] = "loop" /\ cnWorker'[w] = "inflight") =>
                  cnItems[cnPending[w][cnIdx[w]]] = "Pending" ]_vars

====
